---- MODULE Spec2Model ----
(***************************************************************************)
(* Model of the Peloton completion sync of clip-in                         *)
(* (src/lib/peloton/completion-sync.ts): syncCompletedWorkouts matches the *)
(* completed workouts returned by Peloton against the rows of the          *)
(* planned_workouts table and marks the matching rows completed.           *)
(*                                                                         *)
(* One run of syncCompletedWorkouts is a sequence of three kinds of steps, *)
(* one per await of the function: the Peloton fetch, the select on         *)
(* planned_workouts, and one update per matched workout.  Each action      *)
(* below is the code that runs when the awaited call settles, up to the    *)
(* next await or the return.                                               *)
(***************************************************************************)
EXTENDS Integers, Sequences, FiniteSets, TLC

VARIABLES
    planned_workouts,           \* the planned_workouts table: row id -> row
    peloton,                    \* what Peloton holds: the workouts getUserWorkouts returns
    systemTimezone,             \* the time zone of the process (date-fns format uses it)
    userId,                     \* per run: the userId argument
    timezone,                   \* per run: options?.timezone
    pc,                         \* per run: the await the run is suspended at
    completedWorkouts,          \* per run: the filtered feed
    plannedByDateAndRide,       \* per run: date -> ride -> candidates
    idx,                        \* per run: position in completedWorkouts of the workout being written
    match,                      \* per run: the candidate the pending update is for
    attemptedIds,               \* per run
    matchedPelotonWorkoutIds,   \* per run
    successfulUpdates,          \* per run
    failedUpdates,              \* per run
    result,                     \* per run: how the promise of the run settled
    updates,                    \* every update issued on planned_workouts, in order
    selects,                    \* every select issued on planned_workouts, in order
    thrown,                     \* per run: the exception raised inside the try block
    console,                    \* the console.error calls of the runs, in order
    activeUndos,                \* useUndo: the keys of activeUndos.current
    undoPc,                     \* per executeWithUndo call: where the call is
    executed,                   \* per call: how the promise of execute() settled
    returned,                   \* per call: what executeWithUndo returned
    isUndone,                   \* per call: the isUndone flag of its closure
    toasts,                     \* per call: the toast of the call
    clicks,                     \* per call: clicks on the Undo button of its toast
    undoCalls,                  \* per call: invocations of the undo callback
    pendingUndos,               \* per call: invocations of undo() not settled yet
    undone,                     \* per call: invocations of undo() that resolved
    notices,                    \* toast.success / toast.error shown, in order
    cancelled,                  \* per call: the clicks before the first cancelUndo with its id
    request,                    \* reorder route: the JSON body of the request
    session,                    \* reorder route: what supabase.auth.getUser() resolves to
    routePc,                    \* reorder route: the await the handler is suspended at
    sortUpdates,                \* reorder route: the updates of sort_order it issued
    response,                   \* reorder route: the response of the handler
    authCalls,                  \* reorder route: calls of supabase.auth.getUser()
    syncBody,                   \* sync-completions route: what request.json().catch(...) resolved to
    endpointPc,                 \* sync-completions route: the await the handler is suspended at
    authResult,                 \* sync-completions route: what supabase.auth.getUser() settled with
    profile,                    \* sync-completions route: what the select on profiles settled with
    tokens,                     \* sync-completions route: what the select on peloton_tokens settled with
    refreshResult,              \* sync-completions route: what tryRefresh() settled with
    accessToken,                \* sync-completions route: the token handed to PelotonClient
    syncResponse,               \* sync-completions route: the response of the handler
    syncCalls                   \* sync-completions route: the calls of syncCompletedWorkouts

syncVars == <<planned_workouts, peloton, systemTimezone, userId, timezone, pc,
              completedWorkouts, plannedByDateAndRide, idx, match, attemptedIds,
              matchedPelotonWorkoutIds, successfulUpdates, failedUpdates, result,
              updates, selects, thrown, console>>

undoVars == <<activeUndos, undoPc, executed, returned, isUndone, toasts, clicks,
              undoCalls, pendingUndos, undone, notices, cancelled>>

reorderVars == <<request, session, routePc, sortUpdates, response, authCalls>>

endpointVars == <<syncBody, endpointPc, authResult, profile, tokens, refreshResult,
                  accessToken, syncResponse, syncCalls>>

vars == <<syncVars, undoVars, reorderVars, endpointVars>>

runVars == <<completedWorkouts, plannedByDateAndRide, idx, match, attemptedIds,
             matchedPelotonWorkoutIds, successfulUpdates, failedUpdates>>

(***************************************************************************)
(* Bounds and the finite universe of the model                             *)
(***************************************************************************)
MaxFeed == 3                    \* longest list getUserWorkouts returns
MaxClicks == 2                  \* clicks on the Undo button of one toast
MaxReorder == 2                 \* longest workoutIds of a reorder request

NoValue == "null"               \* JS null / undefined

Users == {"user-123", "user-456"}
WorkoutIds == {"peloton-workout-1", "peloton-workout-2"}
RideIds == {"ride-123", "ride-456"}
PlannedIds == {"planned-workout-1", "planned-workout-2", "planned-workout-3"}
SortOrders == {0, 1}

\* created_at values (epoch seconds): 2024-01-20T06:00:00Z, which is
\* 2024-01-19T22:00:00 in America/Los_Angeles
Timestamps == {1705730400}

ValidTimezones == {"UTC", "America/Los_Angeles"}
Timezones == ValidTimezones \cup {"Invalid/Timezone", "", NoValue}

\* values a rejected collaborator call can carry
ApiError == [isError |-> TRUE, message |-> "API error"]
NonError == [isError |-> FALSE, message |-> NoValue]
Thrown == {ApiError, NonError}
\* what a rejected store call carries
StoreThrown == {[isError |-> TRUE, message |-> "fetch failed"]}
NoThrow == [isError |-> FALSE, message |-> "nothing thrown"]

\* the error objects the store answers with
NoError == [message |-> NoValue]
DatabaseError == [message |-> "Database error"]
ConstraintViolation == [message |-> "Constraint violation"]

(***************************************************************************)
(* Sequences                                                               *)
(***************************************************************************)
Range(s) == {s[k] : k \in 1..Len(s)}

SeqsUpTo(S, n) == UNION {[1..k -> S] : k \in 0..n}

\* the orders in which a set can be listed
Orderings(S) == {s \in [1..Cardinality(S) -> S] : Range(s) = S}

(***************************************************************************)
(* Calendar: date-fns format(date, "yyyy-MM-dd") of an instant whose local *)
(* wall clock is localSeconds after the epoch.  A date is <<y, m, d>>.     *)
(***************************************************************************)
CivilFromDays(days) ==
    LET z   == days + 719468
        era == z \div 146097
        doe == z - era * 146097
        yoe == (doe - (doe \div 1460) + (doe \div 36524) - (doe \div 146096)) \div 365
        doy == doe - (365 * yoe + (yoe \div 4) - (yoe \div 100))
        mp  == (5 * doy + 2) \div 153
        d   == doy - ((153 * mp + 2) \div 5) + 1
        m   == IF mp < 10 THEN mp + 3 ELSE mp - 9
        y   == yoe + era * 400 + (IF m <= 2 THEN 1 ELSE 0)
    IN  <<y, m, d>>

\* seconds east of UTC of a zone in January 2024 (the window of the model)
UtcOffset(tz) ==
    CASE tz = "UTC" -> 0
      [] tz = "America/Los_Angeles" -> 0 - 28800

format(timestamp, zone) == CivilFromDays((timestamp + UtcOffset(zone)) \div 86400)

toISOString(timestamp) ==
    [date |-> CivilFromDays(timestamp \div 86400), seconds |-> timestamp % 86400]

isValidTimezone(tz) == tz \in ValidTimezones

\* a conversion that ignores the zone supplied and formats in UTC
utcDate(timestamp, tz) == format(timestamp, "UTC")

\* a conversion whose fallback is UTC and not the zone of the process
utcFallback(timestamp, tz) ==
    IF tz # NoValue /\ tz # "" /\ isValidTimezone(tz)
    THEN format(timestamp, tz)
    ELSE format(timestamp, "UTC")

timestampToDateInTimezone(timestamp, tz) ==
    IF tz # NoValue /\ tz # "" /\ isValidTimezone(tz)
    THEN format(timestamp, tz)
    ELSE format(timestamp, systemTimezone)

Dates == {format(t, z) : t \in Timestamps, z \in ValidTimezones}

(***************************************************************************)
(* The candidate index (completion-sync.ts, step 3)                        *)
(***************************************************************************)
EmptyMap == [k \in {} |-> k]

has(m, k) == k \in DOMAIN m

set(m, k, v) == [x \in DOMAIN m \cup {k} |-> IF x = k THEN v ELSE m[x]]

\* the PlannedWorkoutMatch pushed for a selected row
PlannedWorkoutMatch(pw) ==
    [id |-> pw.id,
     peloton_ride_id |-> pw.peloton_ride_id,
     sort_order |-> pw.sort_order,
     peloton_workout_id |-> pw.peloton_workout_id]

\* one iteration of the grouping loop
GroupOne(m, pw) ==
    LET dateKey == pw.scheduled_date
        m1      == IF has(m, dateKey) THEN m ELSE set(m, dateKey, EmptyMap)
        byRide  == m1[dateKey]
        byRide1 == IF has(byRide, pw.peloton_ride_id) THEN byRide
                   ELSE set(byRide, pw.peloton_ride_id, <<>>)
        pushed  == Append(byRide1[pw.peloton_ride_id], PlannedWorkoutMatch(pw))
    IN  set(m1, dateKey, set(byRide1, pw.peloton_ride_id, pushed))

RECURSIVE GroupByDateAndRide(_)
GroupByDateAndRide(plannedWorkouts) ==
    IF plannedWorkouts = <<>> THEN EmptyMap
    ELSE GroupOne(GroupByDateAndRide(SubSeq(plannedWorkouts, 1, Len(plannedWorkouts) - 1)),
                  plannedWorkouts[Len(plannedWorkouts)])

\* the comparator with its operands swapped: descending sort_order
compareDescending(a, b) == b.sort_order - a.sort_order

\* the comparator handed to Array.prototype.sort
compare(a, b) == a.sort_order - b.sort_order

\* the buckets left in the order the store returned the rows
unsorted(workouts) == workouts

\* a sort that is not stable: of two elements that compare equal the one
\* listed later comes first
sortLastSeenFirst(workouts) ==
    LET n == Len(workouts)
        before(a, b) == compare(workouts[a], workouts[b]) < 0
                        \/ (compare(workouts[a], workouts[b]) = 0 /\ a > b)
        perm == CHOOSE p \in [1..n -> 1..n] :
                    /\ \A i, j \in 1..n : i # j => p[i] # p[j]
                    /\ \A i, j \in 1..n : i < j => before(p[i], p[j])
    IN  [i \in 1..n |-> workouts[perm[i]]]

\* Array.prototype.sort is stable: an element goes behind every element that
\* does not compare greater than it
RECURSIVE sort(_)
sort(workouts) ==
    IF Len(workouts) <= 1 THEN workouts
    ELSE LET n      == Len(workouts)
             sorted == sort(SubSeq(workouts, 1, n - 1))
             x      == workouts[n]
             k      == Cardinality({j \in 1..(n - 1) : compare(sorted[j], x) <= 0})
         IN  SubSeq(sorted, 1, k) \o <<x>> \o SubSeq(sorted, k + 1, n - 1)

BuildIndex(plannedWorkouts) ==
    LET grouped == GroupByDateAndRide(plannedWorkouts)
    IN  [d \in DOMAIN grouped |-> [r \in DOMAIN grouped[d] |-> sort(grouped[d][r])]]

(***************************************************************************)
(* The matching loop (completion-sync.ts, step 4)                          *)
(***************************************************************************)
\* a filter predicate that does not look at the class
statusOnly(w) == w.status = "COMPLETE"

\* w.status === "COMPLETE" && w.ride?.id
isCompleted(w) == w.status = "COMPLETE" /\ w.ride # NoValue

\* the feed taken as it comes
unfiltered(data) == data

filter(data) == SelectSeq(data, isCompleted)

\* the loop without its duplicate guard
neverMatched(matchedIds, id) == FALSE

\* matchedPelotonWorkoutIds.has(completedWorkout.id)
alreadyMatched(matchedIds, id) == id \in matchedIds

\* a lookup by date alone: the candidates of some class planned on the date
candidatesOfDate(map, completionDate, rideId) ==
    IF has(map, completionDate)
    THEN map[completionDate][CHOOSE ride \in DOMAIN map[completionDate] : TRUE]
    ELSE <<>>

\* byDate.get(rideId) of plannedByDateAndRide.get(completionDate); <<>> when
\* either get is undefined
candidatesFor(map, completionDate, rideId) ==
    IF has(map, completionDate) /\ has(map[completionDate], rideId)
    THEN map[completionDate][rideId]
    ELSE <<>>

\* what find returns when no candidate is left (undefined)
NoMatch == [id |-> NoValue]

\* find without the attemptedIds test: the head of the bucket every time
findFirst(candidates, attempted) ==
    IF Len(candidates) = 0 THEN NoMatch ELSE candidates[1]

\* a find that falls back to the last candidate when every candidate was
\* attempted
findOrLast(candidates, attempted) ==
    LET free == {k \in 1..Len(candidates) : candidates[k].id \notin Range(attempted)}
    IN  IF Len(candidates) = 0 THEN NoMatch
        ELSE IF free = {} THEN candidates[Len(candidates)]
        ELSE candidates[CHOOSE k \in free : \A j \in free : k <= j]

\* findLast in the place of find: the last candidate not attempted yet
findLast(candidates, attempted) ==
    LET free == {k \in 1..Len(candidates) : candidates[k].id \notin Range(attempted)}
    IN  IF free = {} THEN NoMatch
        ELSE candidates[CHOOSE k \in free : \A j \in free : k >= j]

\* candidates.find((c) => !attemptedIds.includes(c.id))
find(candidates, attempted) ==
    LET free == {k \in 1..Len(candidates) : candidates[k].id \notin Range(attempted)}
    IN  IF free = {} THEN NoMatch
        ELSE candidates[CHOOSE k \in free : \A j \in free : k <= j]

\* a loop body without its two trackers: the head of the bucket every time
matchUntracked(completedWorkout, map, tz, attempted, matchedIds) ==
    findFirst(candidatesFor(map,
                            timestampToDateInTimezone(completedWorkout.created_at, tz),
                            completedWorkout.ride),
              attempted)

\* the candidate the loop body selects for one completed workout, NoMatch
\* when one of its `continue`s is taken
matchFor(completedWorkout, map, tz, attempted, matchedIds) ==
    LET rideId         == completedWorkout.ride
        completionDate == timestampToDateInTimezone(completedWorkout.created_at, tz)
    IN  IF alreadyMatched(matchedIds, completedWorkout.id) THEN NoMatch
        ELSE find(candidatesFor(map, completionDate, rideId), attempted)

\* the first position >= from of the loop at which an update is issued,
\* Len + 1 when the loop runs to its end
RECURSIVE nextUpdate(_, _, _, _, _, _)
nextUpdate(from, workouts, map, tz, attempted, matchedIds) ==
    IF from > Len(workouts) THEN from
    ELSE IF matchFor(workouts[from], map, tz, attempted, matchedIds).id # NoValue THEN from
    ELSE nextUpdate(from + 1, workouts, map, tz, attempted, matchedIds)

\* a loop that stops at the first failed update
breakOnError(updateError, i, n) ==
    IF updateError.message # NoValue THEN n + 1 ELSE i + 1

\* the loop goes on with the next workout after an update, failed or not
afterUpdate(updateError, i, n) == i + 1

\* a count that pushes the id whether or not the update failed
countAlways(updateError, successful, failed, id) ==
    [successfulUpdates |-> Append(successful, id),
     failedUpdates |-> IF updateError.message # NoValue THEN failed + 1 ELSE failed]

\* if (updateError) failedUpdates++ else successfulUpdates.push(match.id)
countUpdate(updateError, successful, failed, id) ==
    IF updateError.message # NoValue
    THEN [successfulUpdates |-> successful, failedUpdates |-> failed + 1]
    ELSE [successfulUpdates |-> Append(successful, id), failedUpdates |-> failed]

\* the values of the update
updateValues(completedWorkout) ==
    [status |-> "completed",
     completed_at |-> toISOString(completedWorkout.created_at),
     peloton_workout_id |-> completedWorkout.id]

\* a summary that calls the run a success as soon as one update succeeded
summaryAnySuccess(successful, failed) ==
    [success |-> failed = 0 \/ Len(successful) > 0,
     matched |-> Len(successful),
     error |-> IF failed > 0
               THEN ToString(failed) \o " workout(s) failed to update in database"
               ELSE NoValue]

\* the summary returned after the loop
summary(successful, failed) ==
    [success |-> failed = 0,
     matched |-> Len(successful),
     error |-> IF failed > 0
               THEN ToString(failed) \o " workout(s) failed to update in database"
               ELSE NoValue]

earlyReturn == [success |-> TRUE, matched |-> 0, error |-> NoValue]

\* a select error taken for an empty result
fetchErrorIgnored(fetchError) == [success |-> TRUE, matched |-> 0, error |-> NoValue]

fetchErrorReturn(fetchError) ==
    [success |-> FALSE, matched |-> 0,
     error |-> "Failed to fetch planned workouts: " \o fetchError.message]

\* a return statement of the try block; `line` is the line of the statement
return(value, line) == [settled |-> "fulfilled", value |-> value, line |-> line]

\* a catch block that throws the error on to the caller
rethrow(error) == [settled |-> "rejected", reason |-> error, line |-> 191]

\* the catch block: the promise of the run resolves with a failure summary
catch(error) ==
    return([success |-> FALSE, matched |-> 0,
            error |-> IF error.isError THEN error.message ELSE "Unknown error"], 191)

(***************************************************************************)
(* The planned_workouts table                                              *)
(***************************************************************************)
\* .select(...).eq("user_id", userId).eq("status", "planned").is("peloton_workout_id", null)
\* a select without the filter on user_id
ofAnyUser(user) ==
    {id \in DOMAIN planned_workouts :
        /\ planned_workouts[id].status = "planned"
        /\ planned_workouts[id].peloton_workout_id = NoValue}

\* a select without the filters on status and peloton_workout_id
ofUser(user) == {id \in DOMAIN planned_workouts : planned_workouts[id].user_id = user}

\* .eq("user_id", userId).eq("status", "planned").is("peloton_workout_id", null)
selectable(user) ==
    {id \in DOMAIN planned_workouts :
        /\ planned_workouts[id].user_id = user
        /\ planned_workouts[id].status = "planned"
        /\ planned_workouts[id].peloton_workout_id = NoValue}

selectedRow(id) ==
    [id |-> id,
     peloton_ride_id |-> planned_workouts[id].peloton_ride_id,
     scheduled_date |-> planned_workouts[id].scheduled_date,
     sort_order |-> planned_workouts[id].sort_order,
     peloton_workout_id |-> planned_workouts[id].peloton_workout_id]

\* a table without the unique index
noUniqueIndex(id, values) == FALSE

\* idx_planned_workouts_peloton_workout_id: another row already holds the id
violatesUniqueIndex(id, values) ==
    \E other \in DOMAIN planned_workouts :
        /\ other # id
        /\ values.peloton_workout_id # NoValue
        /\ planned_workouts[other].peloton_workout_id = values.peloton_workout_id

\* an update filtered by the class of the row and not by its id
updateByRide(id, values) ==
    [other \in DOMAIN planned_workouts |->
        IF planned_workouts[other].peloton_ride_id = planned_workouts[id].peloton_ride_id
        THEN [planned_workouts[other] EXCEPT !.status = values.status,
                                             !.completed_at = values.completed_at,
                                             !.peloton_workout_id = values.peloton_workout_id]
        ELSE planned_workouts[other]]

\* .update(values).eq("id", id)
applyUpdate(id, values) ==
    [planned_workouts EXCEPT ![id] =
        [@ EXCEPT !.status = values.status,
                  !.completed_at = values.completed_at,
                  !.peloton_workout_id = values.peloton_workout_id]]

(***************************************************************************)
(* Actions                                                                 *)
(***************************************************************************)
Runs == DOMAIN pc

\* a console.error call of run r; `line` is the line of the call
consoleError(r, line) == [run |-> r, line |-> line]

\* toZonedTime resolves the zone through Intl.DateTimeFormat, as
\* isValidTimezone does: it throws for the zones Intl does not know
toZonedTimeThrows(tz) == ~isValidTimezone(tz)

\* what timestampToDateInTimezone writes to the console: the console.error
\* of its catch block, entered when toZonedTime throws for a zone that
\* passed isValidTimezone
timezoneLog(r, timestamp, tz) ==
    IF tz # NoValue /\ tz # "" /\ isValidTimezone(tz) /\ toZonedTimeThrows(tz)
    THEN <<consoleError(r, 42)>>
    ELSE <<>>

\* what the loop writes to the console for the workouts at positions
\* from..to: completionDate is computed for each of them
RECURSIVE loopLog(_, _, _, _, _)
loopLog(r, from, to, workouts, tz) ==
    IF from > to THEN <<>>
    ELSE timezoneLog(r, workouts[from].created_at, tz)
         \o loopLog(r, from + 1, to, workouts, tz)

\* the run returns
Settle(r, res) ==
    /\ pc' = [pc EXCEPT ![r] = "done"]
    /\ result' = [result EXCEPT ![r] = res]
    /\ UNCHANGED thrown

\* an awaited call rejects with e: control passes to the catch block
Throw(r, e) ==
    /\ pc' = [pc EXCEPT ![r] = "done"]
    /\ result' = [result EXCEPT ![r] = catch(e)]
    /\ thrown' = [thrown EXCEPT ![r] = e]
    /\ console' = Append(console, consoleError(r, 190))

\* the select of run r that has not settled yet
pendingSelect(r) ==
    CHOOSE k \in 1..Len(selects) : selects[k].run = r /\ selects[k].outcome = "pending"

\* the update of run r that has not settled yet
pendingUpdate(r) ==
    CHOOSE k \in 1..Len(updates) : updates[k].run = r /\ updates[k].outcome = "pending"

\* a loop that does not record the row it is about to write
notPushed(attempted, id) == attempted

\* attemptedIds.push(match.id), before the update is awaited
push(attempted, id) == Append(attempted, id)

\* the for loop from position `from` up to the next awaited update or, when
\* no workout is left to match, the return of the summary
Loop(r, from, workouts, map, successful, failed, log, out) ==
    LET i == nextUpdate(from, workouts, map, timezone[r], attemptedIds[r],
                        matchedPelotonWorkoutIds[r])
    IN  IF i > Len(workouts)
        THEN /\ Settle(r, return(summary(successful, failed), 181))
             /\ console' = out \o loopLog(r, from, Len(workouts), workouts, timezone[r])
             /\ idx' = [idx EXCEPT ![r] = i]
             /\ match' = [match EXCEPT ![r] = NoMatch]
             /\ updates' = log
             /\ UNCHANGED <<attemptedIds, matchedPelotonWorkoutIds>>
        ELSE LET m == matchFor(workouts[i], map, timezone[r], attemptedIds[r],
                               matchedPelotonWorkoutIds[r])
             IN  /\ idx' = [idx EXCEPT ![r] = i]
                 /\ match' = [match EXCEPT ![r] = m]
                 /\ console' = out \o loopLog(r, from, i, workouts, timezone[r])
                 /\ attemptedIds' = [attemptedIds EXCEPT ![r] = push(@, m.id)]
                 /\ matchedPelotonWorkoutIds' =
                        [matchedPelotonWorkoutIds EXCEPT ![r] = @ \cup {workouts[i].id}]
                 /\ updates' = Append(log,
                        [run |-> r, id |-> m.id, values |-> updateValues(workouts[i]),
                         workout |-> i, outcome |-> "pending"])
                 /\ pc' = [pc EXCEPT ![r] = "update"]
                 /\ UNCHANGED <<result, thrown>>

\* the (row, workout) pairs the for loop issues an update for from position
\* `from` on, whatever the store answers to the updates (a failed update does
\* not stop the loop)
RECURSIVE loopWrites(_, _, _, _, _, _)
loopWrites(from, workouts, map, tz, attempted, matchedIds) ==
    LET i == nextUpdate(from, workouts, map, tz, attempted, matchedIds)
    IN  IF i > Len(workouts) THEN {}
        ELSE LET m == matchFor(workouts[i], map, tz, attempted, matchedIds)
             IN  {[id |-> m.id, workout |-> workouts[i].id]}
                 \cup loopWrites(i + 1, workouts, map, tz, push(attempted, m.id),
                                 matchedIds \cup {workouts[i].id})

\* await peloton.getUserWorkouts(...) settles; the feed is filtered and the
\* select is issued
GetUserWorkouts(r) ==
    /\ pc[r] = "getUserWorkouts"
    /\ UNCHANGED <<planned_workouts, peloton, systemTimezone, userId, timezone>>
    /\ UNCHANGED <<undoVars, reorderVars, endpointVars>>
    /\ \/ \E e \in Thrown :
            /\ Throw(r, e)
            /\ UNCHANGED <<runVars, updates, selects>>
       \/ LET filtered == filter(peloton[userId[r]])
          IN  /\ completedWorkouts' = [completedWorkouts EXCEPT ![r] = filtered]
              /\ UNCHANGED <<plannedByDateAndRide, idx, match, attemptedIds,
                             matchedPelotonWorkoutIds, successfulUpdates,
                             failedUpdates, updates, console>>
              /\ IF Len(filtered) = 0
                 THEN /\ Settle(r, return(earlyReturn, 79))
                      /\ UNCHANGED selects
                 ELSE /\ pc' = [pc EXCEPT ![r] = "select"]
                      /\ selects' = Append(selects,
                            [run |-> r, user_id |-> userId[r], outcome |-> "pending",
                             data |-> <<>>, error |-> NoError])
                      /\ UNCHANGED <<result, thrown>>

\* await supabase.from("planned_workouts").select(...) settles; the index is
\* built and the loop runs up to its first update
SelectPlanned(r) ==
    /\ pc[r] = "select"
    /\ UNCHANGED <<planned_workouts, peloton, systemTimezone, userId, timezone,
                   completedWorkouts>>
    /\ UNCHANGED <<undoVars, reorderVars, endpointVars>>
    /\ \/ \E e \in StoreThrown :
            /\ Throw(r, e)
            /\ selects' = [selects EXCEPT ![pendingSelect(r)].outcome = "rejected"]
            /\ UNCHANGED <<plannedByDateAndRide, idx, match, attemptedIds,
                           matchedPelotonWorkoutIds, successfulUpdates,
                           failedUpdates, updates>>
       \/ \E fetchError \in {DatabaseError} :
            /\ Settle(r, return(fetchErrorReturn(fetchError), 92))
            /\ selects' = [selects EXCEPT ![pendingSelect(r)].outcome = "error",
                                          ![pendingSelect(r)].error = fetchError]
            /\ UNCHANGED <<plannedByDateAndRide, idx, match, attemptedIds,
                           matchedPelotonWorkoutIds, successfulUpdates,
                           failedUpdates, updates, console>>
       \/ \E order \in Orderings(selectable(userId[r])) :
            LET plannedWorkouts == [k \in 1..Len(order) |-> selectedRow(order[k])]
            IN  /\ selects' = [selects EXCEPT ![pendingSelect(r)].outcome = "data",
                                              ![pendingSelect(r)].data = plannedWorkouts]
                /\ IF Len(plannedWorkouts) = 0
                   THEN /\ Settle(r, return(earlyReturn, 100))
                        /\ UNCHANGED <<plannedByDateAndRide, idx, match, attemptedIds,
                                       matchedPelotonWorkoutIds, successfulUpdates,
                                       failedUpdates, updates, console>>
                   ELSE LET map == BuildIndex(plannedWorkouts)
                        IN  /\ plannedByDateAndRide' =
                                   [plannedByDateAndRide EXCEPT ![r] = map]
                            /\ UNCHANGED <<successfulUpdates, failedUpdates>>
                            /\ Loop(r, 1, completedWorkouts[r], map,
                                    successfulUpdates[r], failedUpdates[r], updates,
                                    console)

\* if (updateError) console.error(`Failed to update planned workout ...`)
updateLog(r, updateError, out) ==
    IF updateError.message # NoValue THEN Append(out, consoleError(r, 174)) ELSE out

\* await supabase.from("planned_workouts").update(...).eq("id", match.id)
\* settles; the outcome is counted and the loop goes on
UpdatePlanned(r) ==
    /\ pc[r] = "update"
    /\ UNCHANGED <<peloton, systemTimezone, userId, timezone, completedWorkouts,
                   plannedByDateAndRide, selects>>
    /\ UNCHANGED <<undoVars, reorderVars, endpointVars>>
    /\ LET id     == match[r].id
           values == updateValues(completedWorkouts[r][idx[r]])
           Outcome(o) == [updates EXCEPT ![pendingUpdate(r)].outcome = o]
           Continue(updateError, log) ==
               LET counted == countUpdate(updateError, successfulUpdates[r],
                                          failedUpdates[r], id)
                   from    == afterUpdate(updateError, idx[r], Len(completedWorkouts[r]))
               IN  /\ successfulUpdates' = [successfulUpdates EXCEPT ![r] = counted.successfulUpdates]
                   /\ failedUpdates' = [failedUpdates EXCEPT ![r] = counted.failedUpdates]
                   /\ Loop(r, from, completedWorkouts[r], plannedByDateAndRide[r],
                           counted.successfulUpdates, counted.failedUpdates, log,
                           updateLog(r, updateError, console))
       IN  \/ \E e \in StoreThrown :
                /\ Throw(r, e)
                /\ updates' = Outcome("rejected")
                /\ UNCHANGED <<planned_workouts, idx, match, attemptedIds,
                               matchedPelotonWorkoutIds, successfulUpdates, failedUpdates>>
           \/ /\ violatesUniqueIndex(id, values)
              /\ UNCHANGED planned_workouts
              /\ Continue(ConstraintViolation, Outcome("error"))
           \/ /\ ~violatesUniqueIndex(id, values)
              /\ UNCHANGED planned_workouts
              /\ Continue(DatabaseError, Outcome("error"))
           \/ /\ ~violatesUniqueIndex(id, values)
              /\ planned_workouts' = applyUpdate(id, values)
              /\ Continue(NoError, Outcome("ok"))

Next ==
    \/ \E r \in Runs : GetUserWorkouts(r)
    \/ \E r \in Runs : SelectPlanned(r)
    \/ \E r \in Runs : UpdatePlanned(r)

(***************************************************************************)
(* useUndo (src/lib/hooks/use-undo.ts): one hook instance, its             *)
(* executeWithUndo calls and the callbacks it hands to the toast           *)
(***************************************************************************)
Calls == DOMAIN undoPc

\* a randomUUID that returns one id for every call
mockUUID(c) == "test-uuid-123"

\* crypto.randomUUID(): every call gets an id of its own
randomUUID(c) == "action-" \o ToString(c)

\* an executeWithUndo that registers the action and shows the toast also
\* when execute() threw
registerAlways(rejected, actionId) ==
    [returned |-> IF rejected THEN NoValue ELSE actionId, registered |-> TRUE]

\* the code after `await execute()`: the catch returns null, otherwise the
\* action is registered, the toast is shown and the id is returned
afterExecute(rejected, actionId) ==
    IF rejected
    THEN [returned |-> NoValue, registered |-> FALSE]
    ELSE [returned |-> actionId, registered |-> TRUE]

isUndoActive(actionId) == actionId \in activeUndos

\* an action.undo that sets isUndone whether undo() resolved or threw
undoneOnThrow(rejected, flag) == TRUE

\* isUndone after `await undo()`: set only when undo() resolved
afterUndo(rejected, flag) == IF rejected THEN flag ELSE TRUE

\* an action.undo that removes the action from activeUndos also when undo()
\* threw
deleteOnThrow(rejected, active, actionId) == active \ {actionId}

\* activeUndos after `await undo()`: the action is deleted only when undo()
\* resolved
activeAfterUndo(rejected, active, actionId) ==
    IF rejected THEN active ELSE active \ {actionId}

\* executeWithUndo is called: the id is drawn, isUndone is false, execute()
\* is awaited
ExecuteWithUndo(c) ==
    /\ undoPc[c] = "idle"
    /\ undoPc' = [undoPc EXCEPT ![c] = "execute"]
    /\ isUndone' = [isUndone EXCEPT ![c] = FALSE]
    /\ UNCHANGED <<activeUndos, executed, returned, toasts, clicks, undoCalls,
                   pendingUndos, undone, notices, cancelled>>
    /\ UNCHANGED <<syncVars, reorderVars, endpointVars>>

\* await execute() settles
Execute(c) ==
    /\ undoPc[c] = "execute"
    /\ \E rejected \in BOOLEAN :
          LET actionId == randomUUID(c)
              after    == afterExecute(rejected, actionId)
          IN  /\ executed' = [executed EXCEPT ![c] =
                                 IF rejected THEN "rejected" ELSE "fulfilled"]
              /\ activeUndos' = IF after.registered
                                THEN activeUndos \cup {actionId}
                                ELSE activeUndos
              /\ toasts' = [toasts EXCEPT ![c] =
                               IF after.registered THEN "shown" ELSE "none"]
              /\ returned' = [returned EXCEPT ![c] = after.returned]
    /\ undoPc' = [undoPc EXCEPT ![c] = "returned"]
    /\ UNCHANGED <<isUndone, clicks, undoCalls, pendingUndos, undone, notices, cancelled>>
    /\ UNCHANGED <<syncVars, reorderVars, endpointVars>>

\* an Undo button that does nothing once the action is no longer tracked
onClickIfActive(c) ==
    /\ toasts[c] # "none"
    /\ clicks[c] < MaxClicks
    /\ clicks' = [clicks EXCEPT ![c] = @ + 1]
    /\ toasts' = [toasts EXCEPT ![c] = IF @ = "shown" THEN "dismissing" ELSE @]
    /\ IF isUndone[c] \/ ~isUndoActive(randomUUID(c))
       THEN /\ notices' = Append(notices, [call |-> c, kind |-> "success"])
            /\ UNCHANGED <<undoCalls, pendingUndos>>
       ELSE /\ undoCalls' = [undoCalls EXCEPT ![c] = @ + 1]
            /\ pendingUndos' = [pendingUndos EXCEPT ![c] = @ + 1]
            /\ UNCHANGED notices
    /\ UNCHANGED <<activeUndos, undoPc, executed, returned, isUndone, undone, cancelled>>
    /\ UNCHANGED <<syncVars, reorderVars, endpointVars>>

\* the Undo button of the toast: toast.dismiss(toastId), then action.undo()
\* up to its `await undo()`; when isUndone is set action.undo() returns at
\* once and toast.success is shown
OnClick(c) ==
    /\ toasts[c] # "none"
    /\ clicks[c] < MaxClicks
    /\ clicks' = [clicks EXCEPT ![c] = @ + 1]
    /\ toasts' = [toasts EXCEPT ![c] = IF @ = "shown" THEN "dismissing" ELSE @]
    /\ IF isUndone[c]
       THEN /\ notices' = Append(notices, [call |-> c, kind |-> "success"])
            /\ UNCHANGED <<undoCalls, pendingUndos>>
       ELSE /\ undoCalls' = [undoCalls EXCEPT ![c] = @ + 1]
            /\ pendingUndos' = [pendingUndos EXCEPT ![c] = @ + 1]
            /\ UNCHANGED notices
    /\ UNCHANGED <<activeUndos, undoPc, executed, returned, isUndone, undone, cancelled>>
    /\ UNCHANGED <<syncVars, reorderVars, endpointVars>>

\* await undo() settles inside action.undo(), and onClick goes on
Undo(c) ==
    /\ pendingUndos[c] > 0
    /\ pendingUndos' = [pendingUndos EXCEPT ![c] = @ - 1]
    /\ \E rejected \in BOOLEAN :
          IF rejected
          THEN /\ notices' = Append(notices, [call |-> c, kind |-> "error"])
               /\ isUndone' = [isUndone EXCEPT ![c] = afterUndo(rejected, @)]
               /\ activeUndos' = activeAfterUndo(rejected, activeUndos, randomUUID(c))
               /\ UNCHANGED undone
          ELSE /\ isUndone' = [isUndone EXCEPT ![c] = afterUndo(rejected, @)]
               /\ activeUndos' = activeAfterUndo(rejected, activeUndos, randomUUID(c))
               /\ undone' = [undone EXCEPT ![c] = @ + 1]
               /\ notices' = Append(notices, [call |-> c, kind |-> "success"])
    /\ UNCHANGED <<undoPc, executed, returned, toasts, clicks, undoCalls, cancelled>>
    /\ UNCHANGED <<syncVars, reorderVars, endpointVars>>

\* the toast is dismissed, by the user or after toast.dismiss(toastId)
OnDismiss(c) ==
    /\ toasts[c] \in {"shown", "dismissing"}
    /\ toasts' = [toasts EXCEPT ![c] = "dismissed"]
    /\ activeUndos' = activeUndos \ {randomUUID(c)}
    /\ UNCHANGED <<undoPc, executed, returned, isUndone, clicks, undoCalls,
                   pendingUndos, undone, notices, cancelled>>
    /\ UNCHANGED <<syncVars, reorderVars, endpointVars>>

\* the toast closes after toastDuration
OnAutoClose(c) ==
    /\ toasts[c] = "shown"
    /\ toasts' = [toasts EXCEPT ![c] = "closed"]
    /\ activeUndos' = activeUndos \ {randomUUID(c)}
    /\ UNCHANGED <<undoPc, executed, returned, isUndone, clicks, undoCalls,
                   pendingUndos, undone, notices, cancelled>>
    /\ UNCHANGED <<syncVars, reorderVars, endpointVars>>

\* cancelUndo(actionId) with an id executeWithUndo returned
CancelUndo(c) ==
    /\ returned[c] = randomUUID(c)
    /\ activeUndos' = activeUndos \ {randomUUID(c)}
    /\ cancelled' = [cancelled EXCEPT ![c] = IF @ = <<>> THEN <<clicks[c]>> ELSE @]
    /\ UNCHANGED <<undoPc, executed, returned, isUndone, toasts, clicks, undoCalls,
                   pendingUndos, undone, notices>>
    /\ UNCHANGED <<syncVars, reorderVars, endpointVars>>

NextUndo ==
    \/ \E c \in Calls : ExecuteWithUndo(c)
    \/ \E c \in Calls : Execute(c)
    \/ \E c \in Calls : OnClick(c)
    \/ \E c \in Calls : Undo(c)
    \/ \E c \in Calls : OnDismiss(c)
    \/ \E c \in Calls : OnAutoClose(c)
    \/ \E c \in Calls : CancelUndo(c)

InitCalls(C) ==
    /\ activeUndos = {}
    /\ undoPc = [c \in C |-> "idle"]
    /\ executed = [c \in C |-> "pending"]
    /\ returned = [c \in C |-> "pending"]
    /\ isUndone = [c \in C |-> FALSE]
    /\ toasts = [c \in C |-> "none"]
    /\ clicks = [c \in C |-> 0]
    /\ undoCalls = [c \in C |-> 0]
    /\ pendingUndos = [c \in C |-> 0]
    /\ undone = [c \in C |-> 0]
    /\ notices = <<>>
    /\ cancelled = [c \in C |-> <<>>]

\* no hook is mounted
NoCalls == InitCalls({})

(***************************************************************************)
(* The reorder route, POST /api/planner/workouts/reorder                   *)
(* (src/app/api/planner/sync-completions/route.ts, lines 189-251)          *)
(***************************************************************************)
NoResponse == [status |-> 0, success |-> FALSE, error |-> NoValue]

NextResponseJson(status, success, error) == [status |-> status, success |-> success, error |-> error]

InternalServerError == NextResponseJson(500, FALSE, "Internal server error")

\* !date || !Array.isArray(workoutIds)
missingFields(body) ==
    body.date = NoValue \/ body.date = "" \/ ~body.workoutIds.isArray

\* a route without the authentication check
authSkipped(auth) == FALSE

\* authError || !user
unauthorized(auth) == auth.error # NoValue \/ auth.user = NoValue

\* an update filtered by id only
updateById(id, user, index) ==
    [rid \in DOMAIN planned_workouts |->
        IF rid = id
        THEN [planned_workouts[rid] EXCEPT !.sort_order = index]
        ELSE planned_workouts[rid]]

\* .update({ sort_order: index }).eq("id", id).eq("user_id", user.id)
updateSortOrder(id, user, index) ==
    [rid \in DOMAIN planned_workouts |->
        IF rid = id /\ planned_workouts[rid].user_id = user
        THEN [planned_workouts[rid] EXCEPT !.sort_order = index]
        ELSE planned_workouts[rid]]

\* workoutIds.map((id, index) => ...): one update per element
mapUpdates(workoutIds) ==
    [k \in 1..Len(workoutIds) |->
        [id |-> workoutIds[k], index |-> k - 1, outcome |-> "pending"]]

\* the route without the failure check (lines 145-187 of the file): success
\* whatever the updates answered
respondWithoutCheck(results) == NextResponseJson(200, TRUE, NoValue)

\* the code after `await Promise.all(updates)`
respond(results) ==
    LET failures == {k \in 1..Len(results) : results[k].outcome = "error"}
    IN  IF Cardinality(failures) > 0
        THEN NextResponseJson(500, FALSE,
                  "Failed to update " \o ToString(Cardinality(failures)) \o " workout(s)")
        ELSE NextResponseJson(200, TRUE, NoValue)

\* the handler returns
Respond(res) ==
    /\ response' = res
    /\ routePc' = "done"

\* await request.json() settles, and the body is checked
Json ==
    /\ routePc = "json"
    /\ IF request.malformed
       THEN Respond(InternalServerError)
       ELSE IF missingFields(request)
       THEN Respond(NextResponseJson(400, FALSE, "Missing required fields: date and workoutIds"))
       ELSE /\ routePc' = "createUntypedClient"
            /\ UNCHANGED response
    /\ UNCHANGED <<request, session, sortUpdates, authCalls>>
    /\ UNCHANGED <<syncVars, undoVars, endpointVars>>

\* await createUntypedClient() settles, and auth.getUser() is called
CreateUntypedClient ==
    /\ routePc = "createUntypedClient"
    /\ \/ /\ Respond(InternalServerError)
          /\ UNCHANGED authCalls
       \/ /\ routePc' = "getUser"
          /\ authCalls' = authCalls + 1
          /\ UNCHANGED response
    /\ UNCHANGED <<request, session, sortUpdates>>
    /\ UNCHANGED <<syncVars, undoVars, endpointVars>>

\* await supabase.auth.getUser() settles; the updates are issued together
GetUser ==
    /\ routePc = "getUser"
    /\ IF session.rejects
       THEN /\ Respond(InternalServerError)
            /\ UNCHANGED sortUpdates
       ELSE IF unauthorized(session)
       THEN /\ Respond(NextResponseJson(401, FALSE, "Unauthorized"))
            /\ UNCHANGED sortUpdates
       ELSE LET updates_ == mapUpdates(request.workoutIds.items)
            IN  /\ sortUpdates' = updates_
                /\ IF Len(updates_) = 0
                   THEN Respond(respond(updates_))
                   ELSE /\ routePc' = "Promise.all"
                        /\ UNCHANGED response
    /\ UNCHANGED <<request, session, authCalls>>
    /\ UNCHANGED <<syncVars, undoVars, endpointVars>>

\* one of the updates settles; Promise.all settles with the first rejection
\* or with the last result, and an update still pending after the response
\* settles later
Update(k) ==
    /\ k \in 1..Len(sortUpdates)
    /\ sortUpdates[k].outcome = "pending"
    /\ \E outcome \in {"ok", "error", "rejected"} :
          LET results == [sortUpdates EXCEPT ![k].outcome = outcome]
          IN  /\ sortUpdates' = results
              /\ planned_workouts' =
                    IF outcome = "ok"
                    THEN updateSortOrder(sortUpdates[k].id, session.user, sortUpdates[k].index)
                    ELSE planned_workouts
              /\ IF routePc # "Promise.all"
                 THEN UNCHANGED <<response, routePc>>
                 ELSE IF outcome = "rejected"
                 THEN Respond(InternalServerError)
                 ELSE IF \A j \in 1..Len(results) : results[j].outcome # "pending"
                 THEN Respond(respond(results))
                 ELSE UNCHANGED <<response, routePc>>
    /\ UNCHANGED <<request, session, authCalls>>
    /\ UNCHANGED <<peloton, systemTimezone, userId, timezone, pc, completedWorkouts,
                   plannedByDateAndRide, idx, match, attemptedIds,
                   matchedPelotonWorkoutIds, successfulUpdates, failedUpdates, result,
                   updates, selects, thrown, console>>
    /\ UNCHANGED <<undoVars, endpointVars>>

NextReorder ==
    \/ Json
    \/ CreateUntypedClient
    \/ GetUser
    \/ \E k \in 1..MaxReorder : Update(k)

\* no request of the route is in flight
NoRequest ==
    /\ request = [malformed |-> TRUE]
    /\ session = [rejects |-> TRUE]
    /\ routePc = "done"
    /\ sortUpdates = <<>>
    /\ response = NoResponse
    /\ authCalls = 0

(***************************************************************************)
(* The sync-completions route, POST /api/planner/sync-completions          *)
(* (src/app/api/planner/sync-completions/route.ts, lines 8-143): the       *)
(* handler awaits the body, the client, the user, the profile, the tokens, *)
(* the refresh of an expired token, and the call of syncCompletedWorkouts, *)
(* which runs as run 1 of the actions above.                               *)
(***************************************************************************)
\* new Date() of line 75 (2024-01-21T06:00:00Z)
Now == 1705816800

NotAsked == [asked |-> FALSE]

NoSyncResponse == [status |-> 0, error |-> NoValue, message |-> NoValue, matched |-> <<>>]

\* NextResponse.json({error}, {status})
ErrorJson(status, error) ==
    [status |-> status, error |-> error, message |-> NoValue, matched |-> <<>>]

\* a JS value is truthy: not undefined, not null, not the empty string
truthy(v) == v # NoValue /\ v # ""

\* a || b
orElse(a, b) == IF truthy(a) THEN a ELSE b

\* a resolution that prefers the time zone of the browser
browserTimezoneFirst(profileTimezone, browserTimezone) ==
    orElse(orElse(browserTimezone, profileTimezone), "UTC")

\* profile.timezone || browserTimezone || "UTC"
resolveTimezone(profileTimezone, browserTimezone) ==
    orElse(orElse(profileTimezone, browserTimezone), "UTC")

\* authError || !user
unauthorizedUser(auth) == auth.error # NoValue \/ auth.user = NoValue

\* profileError || !profile?.peloton_user_id
profileNotFound(p) == p.error # NoValue \/ ~p.data \/ ~truthy(p.peloton_user_id)

\* tokensError || !tokens
notConnected(t) == t.error # NoValue \/ ~t.data

\* new Date(tokens.expires_at) < new Date()
isExpired(t) == t.expires_at < Now

\* a handler that goes on with the stored token when the refresh failed
refreshIgnored(res) == FALSE

\* !refreshResult?.success
refreshFailed(res) == res.isNull \/ ~res.success

\* the response after `await syncCompletedWorkouts(...)`
syncResult(res) ==
    IF ~res.success
    THEN [status |-> 500, error |-> orElse(res.error, "Sync failed"),
          message |-> NoValue, matched |-> <<res.matched>>]
    ELSE [status |-> 200, error |-> NoValue,
          message |-> IF res.matched > 0
                      THEN "Detected " \o ToString(res.matched) \o " completed workout(s)"
                      ELSE "No new completions detected",
          matched |-> <<res.matched>>]

\* the catch block of the handler; `kind` is the class of the error caught
caught(kind) ==
    CASE kind = "DecryptionError" -> ErrorJson(401, "Failed to decrypt token")
      [] kind = "PelotonAuthError" ->
             ErrorJson(401, "Peloton authentication failed. Please reconnect.")
      [] OTHER -> ErrorJson(500, "Internal server error")

\* the handler returns a response
SyncRespond(res) ==
    /\ syncResponse' = res
    /\ endpointPc' = "done"
    /\ UNCHANGED console

\* an error reaches the catch block
SyncCatch(kind) ==
    /\ syncResponse' = caught(kind)
    /\ endpointPc' = "done"
    /\ console' = Append(console, consoleError(0, 122))

\* the handler goes on to its next await
SyncAwait(next) ==
    /\ endpointPc' = next
    /\ UNCHANGED <<syncResponse, console>>

runState == <<userId, timezone, pc, completedWorkouts, plannedByDateAndRide, idx, match,
              attemptedIds, matchedPelotonWorkoutIds, successfulUpdates, failedUpdates,
              result, thrown>>

storeState == <<planned_workouts, peloton, systemTimezone, updates, selects>>

\* what request.json().catch(() => ({})) resolves to: {} for a body that is
\* not JSON, the JSON value null, or an object with or without a timezone
SyncBodies ==
    {[json |-> "malformed", timezone |-> NoValue], [json |-> "null", timezone |-> NoValue]}
    \cup [json : {"object"}, timezone : {NoValue, "", "UTC", "Invalid/Timezone"}]

\* getUser resolves to user-123, to no user, to an error, or rejects
AuthResults ==
    {[asked |-> TRUE, rejects |-> FALSE, user |-> "user-123", error |-> NoValue],
     [asked |-> TRUE, rejects |-> FALSE, user |-> NoValue, error |-> NoValue],
     [asked |-> TRUE, rejects |-> FALSE, user |-> NoValue, error |-> "Auth session missing!"],
     [asked |-> TRUE, rejects |-> TRUE, user |-> NoValue, error |-> NoValue]}

\* .single() on profiles: the call rejects, answers an error (no row), or
\* answers the row, with or without a Peloton user id and a time zone
ProfileResults ==
    {[asked |-> TRUE, rejects |-> TRUE, error |-> NoValue, data |-> FALSE,
      peloton_user_id |-> NoValue, timezone |-> NoValue],
     [asked |-> TRUE, rejects |-> FALSE, error |-> "PGRST116", data |-> FALSE,
      peloton_user_id |-> NoValue, timezone |-> NoValue],
     [asked |-> TRUE, rejects |-> FALSE, error |-> NoValue, data |-> TRUE,
      peloton_user_id |-> NoValue, timezone |-> "America/Los_Angeles"]}
    \cup [asked : {TRUE}, rejects : {FALSE}, error : {NoValue}, data : {TRUE},
          peloton_user_id : {"peloton-user-1"},
          timezone : {NoValue, "", "America/Los_Angeles"}]

\* .single() on peloton_tokens: the call rejects, answers an error, or
\* answers the row: expired or not, with or without a refresh token
TokenResults ==
    {[asked |-> TRUE, rejects |-> TRUE, error |-> NoValue, data |-> FALSE,
      expires_at |-> 0, refresh_token_encrypted |-> NoValue],
     [asked |-> TRUE, rejects |-> FALSE, error |-> "PGRST116", data |-> FALSE,
      expires_at |-> 0, refresh_token_encrypted |-> NoValue]}
    \cup [asked : {TRUE}, rejects : {FALSE}, error : {NoValue}, data : {TRUE},
          expires_at : {Now - 3600, Now + 3600},
          refresh_token_encrypted : {NoValue, "encrypted-refresh-token"}]

\* tryRefresh(): null without a refresh token; otherwise decryptToken or
\* refreshPelotonToken throws, or refreshPelotonToken resolves, and the
\* result is null unless it has success: true
RefreshResults(t) ==
    IF ~truthy(t.refresh_token_encrypted)
    THEN {[asked |-> TRUE, thrown |-> NoValue, isNull |-> TRUE, success |-> FALSE]}
    ELSE [asked : {TRUE}, thrown : {"DecryptionError", "PelotonAuthError", "Error"},
          isNull : {TRUE}, success : {FALSE}]
         \cup {[asked |-> TRUE, thrown |-> NoValue, isNull |-> TRUE, success |-> FALSE],
               [asked |-> TRUE, thrown |-> NoValue, isNull |-> FALSE, success |-> TRUE]}

\* new PelotonClient(decryptToken(accessToken)) and the call of
\* syncCompletedWorkouts: decryptToken throws, or run 1 starts
CallSync(token) ==
    /\ accessToken' = token
    /\ \/ /\ SyncCatch("DecryptionError")
          /\ UNCHANGED <<syncCalls, runState>>
       \/ LET tz == resolveTimezone(profile.timezone, syncBody.timezone)
          IN  /\ SyncAwait("syncCompletedWorkouts")
              /\ syncCalls' = Append(syncCalls,
                     [userId |-> authResult.user,
                      pelotonUserId |-> profile.peloton_user_id,
                      timezone |-> tz])
              /\ userId' = [r \in {1} |-> authResult.user]
              /\ timezone' = [r \in {1} |-> tz]
              /\ pc' = [r \in {1} |-> "getUserWorkouts"]
              /\ result' = [r \in {1} |-> [settled |-> "pending"]]
              /\ completedWorkouts' = [r \in {1} |-> <<>>]
              /\ plannedByDateAndRide' = [r \in {1} |-> EmptyMap]
              /\ idx' = [r \in {1} |-> 0]
              /\ match' = [r \in {1} |-> NoMatch]
              /\ attemptedIds' = [r \in {1} |-> <<>>]
              /\ matchedPelotonWorkoutIds' = [r \in {1} |-> {}]
              /\ successfulUpdates' = [r \in {1} |-> <<>>]
              /\ failedUpdates' = [r \in {1} |-> 0]
              /\ thrown' = [r \in {1} |-> NoThrow]

\* await request.json().catch(() => ({})) settles, and timezone is read
\* from the body: destructuring null throws
SyncJson ==
    /\ endpointPc = "json"
    /\ \E body \in SyncBodies :
          /\ syncBody' = body
          /\ IF body.json = "null" THEN SyncCatch("TypeError")
             ELSE SyncAwait("createUntypedClient")
    /\ UNCHANGED <<authResult, profile, tokens, refreshResult, accessToken, syncCalls>>
    /\ UNCHANGED <<runState, storeState, undoVars, reorderVars>>

\* await createUntypedClient() settles, and auth.getUser() is called
SyncCreateUntypedClient ==
    /\ endpointPc = "createUntypedClient"
    /\ \/ SyncCatch("Error")
       \/ SyncAwait("getUser")
    /\ UNCHANGED <<syncBody, authResult, profile, tokens, refreshResult, accessToken,
                   syncCalls>>
    /\ UNCHANGED <<runState, storeState, undoVars, reorderVars>>

\* await supabase.auth.getUser() settles
SyncGetUser ==
    /\ endpointPc = "getUser"
    /\ \E auth \in AuthResults :
          /\ authResult' = auth
          /\ IF auth.rejects THEN SyncCatch("Error")
             ELSE IF unauthorizedUser(auth) THEN SyncRespond(ErrorJson(401, "Unauthorized"))
             ELSE SyncAwait("profiles")
    /\ UNCHANGED <<syncBody, profile, tokens, refreshResult, accessToken, syncCalls>>
    /\ UNCHANGED <<runState, storeState, undoVars, reorderVars>>

\* await supabase.from("profiles")...single() settles
SelectProfile ==
    /\ endpointPc = "profiles"
    /\ \E p \in ProfileResults :
          /\ profile' = p
          /\ IF p.rejects THEN SyncCatch("Error")
             ELSE IF profileNotFound(p)
             THEN SyncRespond(ErrorJson(400, "Peloton profile not found"))
             ELSE SyncAwait("peloton_tokens")
    /\ UNCHANGED <<syncBody, authResult, tokens, refreshResult, accessToken, syncCalls>>
    /\ UNCHANGED <<runState, storeState, undoVars, reorderVars>>

\* await supabase.from("peloton_tokens")...single() settles; with a token
\* that is not expired the handler goes on to the call of the core
SelectTokens ==
    /\ endpointPc = "peloton_tokens"
    /\ \E t \in TokenResults :
          /\ tokens' = t
          /\ IF t.rejects
             THEN /\ SyncCatch("Error")
                  /\ UNCHANGED <<accessToken, syncCalls, runState>>
             ELSE IF notConnected(t)
             THEN /\ SyncRespond(ErrorJson(400, "Peloton not connected"))
                  /\ UNCHANGED <<accessToken, syncCalls, runState>>
             ELSE IF isExpired(t)
             THEN /\ SyncAwait("tryRefresh")
                  /\ UNCHANGED <<accessToken, syncCalls, runState>>
             ELSE CallSync("stored")
    /\ UNCHANGED <<syncBody, authResult, profile, refreshResult>>
    /\ UNCHANGED <<storeState, undoVars, reorderVars>>

\* await tryRefresh() settles
TryRefresh ==
    /\ endpointPc = "tryRefresh"
    /\ \E res \in RefreshResults(tokens) :
          /\ refreshResult' = res
          /\ IF res.thrown # NoValue THEN SyncCatch(res.thrown)
             ELSE IF refreshFailed(res)
             THEN SyncRespond(ErrorJson(401, "Peloton token expired. Please reconnect."))
             ELSE SyncAwait("refreshedTokens")
    /\ UNCHANGED <<syncBody, authResult, profile, tokens, accessToken, syncCalls>>
    /\ UNCHANGED <<runState, storeState, undoVars, reorderVars>>

\* the select of the refreshed access token settles: with a row the new
\* token is used, without one the stored token
SelectRefreshedTokens ==
    /\ endpointPc = "refreshedTokens"
    /\ \/ /\ SyncCatch("Error")
          /\ UNCHANGED <<accessToken, syncCalls, runState>>
       \/ \E token \in {"refreshed", "stored"} : CallSync(token)
    /\ UNCHANGED <<syncBody, authResult, profile, tokens, refreshResult>>
    /\ UNCHANGED <<storeState, undoVars, reorderVars>>

\* await syncCompletedWorkouts(...) settles: run 1 has returned
SyncCompletedWorkouts ==
    /\ endpointPc = "syncCompletedWorkouts"
    /\ pc[1] = "done"
    /\ SyncRespond(syncResult(result[1].value))
    /\ UNCHANGED <<syncBody, authResult, profile, tokens, refreshResult, accessToken,
                   syncCalls>>
    /\ UNCHANGED <<runState, storeState, undoVars, reorderVars>>

NextEndpoint ==
    \/ SyncJson
    \/ SyncCreateUntypedClient
    \/ SyncGetUser
    \/ SelectProfile
    \/ SelectTokens
    \/ TryRefresh
    \/ SelectRefreshedTokens
    \/ SyncCompletedWorkouts
    \/ \E r \in Runs : GetUserWorkouts(r)
    \/ \E r \in Runs : SelectPlanned(r)
    \/ \E r \in Runs : UpdatePlanned(r)

\* no request of the route is in flight
NoEndpoint ==
    /\ syncBody = [json |-> "malformed", timezone |-> NoValue]
    /\ endpointPc = "done"
    /\ authResult = NotAsked
    /\ profile = NotAsked
    /\ tokens = NotAsked
    /\ refreshResult = NotAsked
    /\ accessToken = "none"
    /\ syncResponse = NoSyncResponse
    /\ syncCalls = <<>>

(***************************************************************************)
(* Initial states                                                          *)
(***************************************************************************)
\* a workout as getUserWorkouts returns it (PelotonWorkout)
PelotonWorkout(id, created_at, status, ride) ==
    [id |-> id, created_at |-> created_at, status |-> status, ride |-> ride]

\* what Peloton knows of each workout id: an id names one workout, so two
\* elements of a feed with the same id are the same workout
\* a workout is a completed class, a class still in progress, or a completed
\* workout without a class
WorkoutKinds ==
    [created_at : Timestamps, status : {"COMPLETE"}, ride : RideIds]
    \cup [created_at : Timestamps, status : {"IN_PROGRESS"}, ride : {"ride-123"}]
    \cup [created_at : Timestamps, status : {"COMPLETE"}, ride : {NoValue}]

WorkoutData == [WorkoutIds -> WorkoutKinds]

Feeds(data) ==
    {[k \in 1..Len(ids) |->
        PelotonWorkout(ids[k], data[ids[k]].created_at, data[ids[k]].status, data[ids[k]].ride)]
     : ids \in SeqsUpTo(WorkoutIds, MaxFeed)}

\* a row created by the planner: planned, not matched
PlannedRow(user, ride, date, order) ==
    [user_id |-> user, peloton_ride_id |-> ride, scheduled_date |-> date,
     sort_order |-> order, status |-> "planned", peloton_workout_id |-> NoValue,
     completed_at |-> NoValue]

\* a row an earlier run matched with a workout
CompletedRow(user, ride, date, order, workout, created_at) ==
    [user_id |-> user, peloton_ride_id |-> ride, scheduled_date |-> date,
     sort_order |-> order, status |-> "completed", peloton_workout_id |-> workout,
     completed_at |-> toISOString(created_at)]

InitRuns(R) ==
    /\ pc = [r \in R |-> "getUserWorkouts"]
    /\ result = [r \in R |-> [settled |-> "pending"]]
    /\ completedWorkouts = [r \in R |-> <<>>]
    /\ plannedByDateAndRide = [r \in R |-> EmptyMap]
    /\ idx = [r \in R |-> 0]
    /\ match = [r \in R |-> NoMatch]
    /\ attemptedIds = [r \in R |-> <<>>]
    /\ matchedPelotonWorkoutIds = [r \in R |-> {}]
    /\ successfulUpdates = [r \in R |-> <<>>]
    /\ failedUpdates = [r \in R |-> 0]
    /\ updates = <<>>
    /\ selects = <<>>
    /\ thrown = [r \in R |-> NoThrow]
    /\ console = <<>>

\* rows are listed up to the renaming of their ids: the select returns them
\* in every order
RowKey(ride, date, order) ==
    (IF ride = "ride-123" THEN 0 ELSE 100) + 2 * date[3] + order

\* one run for user-123; two of the rows are planned rows of the user, the
\* third is a row of another user or a row of the user matched earlier
Init ==
    /\ InitRuns({1})
    /\ NoCalls
    /\ NoRequest
    /\ NoEndpoint
    /\ userId = [r \in {1} |-> "user-123"]
    /\ timezone \in [{1} -> ValidTimezones]
    /\ systemTimezone = "UTC"
    /\ \E data \in WorkoutData : \E feed \in Feeds(data) :
          peloton = [u \in Users |-> IF u = "user-123" THEN feed ELSE <<>>]
    /\ \E r1, r2 \in RideIds, d1, d2 \in Dates, o1, o2 \in SortOrders :
       \E third \in {PlannedRow("user-456", "ride-123", <<2024, 1, 20>>, 0),
                     CompletedRow("user-123", "ride-123", <<2024, 1, 20>>, 0,
                                  "peloton-workout-1", 1705730400)} :
          /\ RowKey(r1, d1, o1) <= RowKey(r2, d2, o2)
          /\ planned_workouts =
              [id \in PlannedIds |->
                  CASE id = "planned-workout-1" -> PlannedRow("user-123", r1, d1, o1)
                    [] id = "planned-workout-2" -> PlannedRow("user-123", r2, d2, o2)
                    [] id = "planned-workout-3" -> third]

Spec == Init /\ [][Next]_vars

\* a page with the hook, two calls of executeWithUndo, and no reconciliation
\* in flight
InitUndo ==
    /\ InitCalls({1, 2})
    /\ NoRequest
    /\ NoEndpoint
    /\ InitRuns({})
    /\ userId = <<>>
    /\ timezone = <<>>
    /\ systemTimezone = "UTC"
    /\ peloton = [u \in Users |-> <<>>]
    /\ planned_workouts = <<>>

SpecUndo == InitUndo /\ [][NextUndo]_vars

(***************************************************************************)
(* What a run did, read from the logs of the store calls                   *)
(***************************************************************************)
UpdatesOf(r) == {k \in 1..Len(updates) : updates[k].run = r}

\* the updates of run r the store answered with outcome o
UpdatesWith(r, o) == {k \in UpdatesOf(r) : updates[k].outcome = o}

\* the rows the select of run r returned
Eligible(r) ==
    UNION {Range(selects[k].data) :
             k \in {j \in 1..Len(selects) : selects[j].run = r /\ selects[j].outcome = "data"}}

EligibleRow(r, id) == CHOOSE row \in Eligible(r) : row.id = id

\* the eligible rows of a (date, class) bucket
Bucket(r, date, ride) ==
    {row \in Eligible(r) : row.scheduled_date = date /\ row.peloton_ride_id = ride}

SameBucket(a, b) ==
    a.scheduled_date = b.scheduled_date /\ a.peloton_ride_id = b.peloton_ride_id

ResolvedDate(r, w) == timestampToDateInTimezone(w.created_at, timezone[r])

\* the positions of the filtered feed that resolve to a (date, class) bucket
Resolving(r, date, ride) ==
    {i \in 1..Len(completedWorkouts[r]) :
        /\ completedWorkouts[r][i].ride = ride
        /\ ResolvedDate(r, completedWorkouts[r][i]) = date}

ReturnedAt(r, line) == pc[r] = "done" /\ result[r].line = line

(***************************************************************************)
(* C1: within one run no planned workout id is the target of more than one *)
(* update, whatever the feed and whatever the earlier updates answered.    *)
(***************************************************************************)
C1_OneUpdatePerPlannedWorkout ==
    \A r \in Runs : \A j, k \in UpdatesOf(r) :
        j # k => updates[j].id # updates[k].id

\* two workouts competed for one bucket of two rows, the first update failed
C1_Witness ==
    \E r \in Runs : \E j, k \in UpdatesOf(r) :
        /\ j < k
        /\ updates[j].outcome = "error"
        /\ SameBucket(EligibleRow(r, updates[j].id), EligibleRow(r, updates[k].id))

(***************************************************************************)
(* C2: within one run a Peloton workout id is carried by at most one       *)
(* update, also when the feed lists the id several times, and it is        *)
(* counted at most once in matched.                                        *)
(***************************************************************************)
C2_OneUpdatePerPelotonWorkout ==
    \A r \in Runs :
        /\ \A j, k \in UpdatesOf(r) :
              j # k => updates[j].values.peloton_workout_id # updates[k].values.peloton_workout_id
        /\ Len(successfulUpdates[r]) <=
              Cardinality({updates[k].values.peloton_workout_id : k \in UpdatesOf(r)})
        /\ ReturnedAt(r, 181) =>
              result[r].value.matched <=
                 Cardinality({completedWorkouts[r][i].id : i \in 1..Len(completedWorkouts[r])})

\* the feed listed a matched workout twice while a second row of its bucket
\* was still free
C2_Witness ==
    \E r \in Runs : \E i, j \in 1..Len(completedWorkouts[r]) :
        /\ i < j
        /\ completedWorkouts[r][i].id = completedWorkouts[r][j].id
        /\ ReturnedAt(r, 181)
        /\ result[r].value.matched = 1
        /\ \E k \in UpdatesOf(r) : updates[k].workout = i
        /\ Cardinality(Bucket(r, ResolvedDate(r, completedWorkouts[r][i]),
                              completedWorkouts[r][i].ride)) = 2

(***************************************************************************)
(* C3: every update pairs a row with a workout of the same class whose     *)
(* resolved date is the scheduled date of the row, and sets the row's      *)
(* peloton_workout_id to the id of that workout; a workout whose (date,    *)
(* class) has no eligible row causes no update.                            *)
(***************************************************************************)
C3_UpdateMatchesClassAndDate ==
    \A r \in Runs :
        /\ \A k \in UpdatesOf(r) :
              LET w == completedWorkouts[r][updates[k].workout]
              IN  /\ \E row \in Eligible(r) :
                        /\ row.id = updates[k].id
                        /\ row.peloton_ride_id = w.ride
                        /\ row.scheduled_date = ResolvedDate(r, w)
                  /\ updates[k].values.peloton_workout_id = w.id
                  /\ updates[k].outcome = "ok" =>
                        planned_workouts[updates[k].id].peloton_workout_id = w.id
        /\ \A i \in 1..Len(completedWorkouts[r]) :
              Bucket(r, ResolvedDate(r, completedWorkouts[r][i]), completedWorkouts[r][i].ride) = {}
                 => ~ \E k \in UpdatesOf(r) : updates[k].workout = i

\* one workout was matched and written, another found no row for its date
\* and class although rows were eligible
C3_Witness ==
    \E r \in Runs : \E i, j \in 1..Len(completedWorkouts[r]) :
        /\ ReturnedAt(r, 181)
        /\ \E k \in UpdatesWith(r, "ok") : updates[k].workout = i
        /\ completedWorkouts[r][j].id # completedWorkouts[r][i].id
        /\ Bucket(r, ResolvedDate(r, completedWorkouts[r][j]), completedWorkouts[r][j].ride) = {}
        /\ \E row \in Eligible(r) :
              /\ row.peloton_ride_id = completedWorkouts[r][j].ride
              /\ row.scheduled_date # ResolvedDate(r, completedWorkouts[r][j])

(***************************************************************************)
(* C4: when several eligible rows share date and class and one completion  *)
(* of that class on that date is processed, the row written is one with    *)
(* the lowest sort_order, wherever the store listed it; the rows of higher *)
(* sort_order receive no update.                                           *)
(***************************************************************************)
C4_LowestSortOrderFirst ==
    \A r \in Runs : \A k \in UpdatesOf(r) :
        LET row    == EligibleRow(r, updates[k].id)
            bucket == Bucket(r, row.scheduled_date, row.peloton_ride_id)
            inBucket == {j \in UpdatesOf(r) : EligibleRow(r, updates[j].id) \in bucket}
            completions == {completedWorkouts[r][i].id :
                               i \in Resolving(r, row.scheduled_date, row.peloton_ride_id)}
        IN  /\ (\A j \in inBucket : k <= j) =>
                  \A other \in bucket : row.sort_order <= other.sort_order
            /\ Cardinality(completions) = 1 => inBucket = {k}

\* the store listed the row of sort_order 1 before the row of sort_order 0 of
\* the same bucket, one completion was processed and its update succeeded
C4_Witness ==
    \E r \in Runs : \E k \in UpdatesWith(r, "ok") :
    \E s \in 1..Len(selects) : \E a, b \in 1..Len(selects[s].data) :
        /\ ReturnedAt(r, 181)
        /\ selects[s].run = r
        /\ a < b
        /\ SameBucket(selects[s].data[a], selects[s].data[b])
        /\ selects[s].data[a].sort_order > selects[s].data[b].sort_order
        /\ updates[k].id = selects[s].data[b].id
        /\ Cardinality(Resolving(r, selects[s].data[b].scheduled_date,
                                 selects[s].data[b].peloton_ride_id)) = 1

(***************************************************************************)
(* C5: two eligible rows of one class and date, two distinct completions   *)
(* of that class on that date, every update succeeding: the row of lower   *)
(* sort_order is written first with the first completion of the feed, the  *)
(* other row with the second, and matched is 2.                            *)
(***************************************************************************)
C5_TwoCompletionsFifo ==
    \A r \in Runs : \A lo, hi \in Eligible(r) :
        LET positions == Resolving(r, lo.scheduled_date, lo.peloton_ride_id)
            ids       == {completedWorkouts[r][i].id : i \in positions}
            first(id) == CHOOSE i \in positions :
                            /\ completedWorkouts[r][i].id = id
                            /\ \A j \in positions :
                                  completedWorkouts[r][j].id = id => i <= j
        IN  ( /\ ReturnedAt(r, 181)
              /\ UpdatesWith(r, "error") = {}
              /\ Bucket(r, lo.scheduled_date, lo.peloton_ride_id) = {lo, hi}
              /\ lo.sort_order < hi.sort_order
              /\ Cardinality(ids) = 2 )
            => \E a1, a2 \in ids : \E k1, k2 \in UpdatesWith(r, "ok") :
                  /\ first(a1) < first(a2)
                  /\ k1 < k2
                  /\ updates[k1].id = lo.id
                  /\ updates[k1].values.peloton_workout_id = a1
                  /\ updates[k2].id = hi.id
                  /\ updates[k2].values.peloton_workout_id = a2
                  /\ planned_workouts[lo.id].peloton_workout_id = a1
                  /\ planned_workouts[hi.id].peloton_workout_id = a2
                  /\ result[r].value.matched >= 2
                  /\ Len(completedWorkouts[r]) = 2 => result[r].value.matched = 2

\* the store listed the higher row first; both completions were written
C5_Witness ==
    \E r \in Runs : \E s \in 1..Len(selects) :
        /\ ReturnedAt(r, 181)
        /\ selects[s].run = r
        /\ Len(selects[s].data) = 2
        /\ SameBucket(selects[s].data[1], selects[s].data[2])
        /\ selects[s].data[1].sort_order > selects[s].data[2].sort_order
        /\ result[r].value.matched = 2
        /\ Len(completedWorkouts[r]) = 2

(***************************************************************************)
(* C6: an update the store answers with an error does not abort the run:   *)
(* the run goes on to the return of the summary, and no later workout of   *)
(* the feed is left unwritten while a row of its date and class is free.   *)
(***************************************************************************)
C6_UpdateErrorDoesNotAbort ==
    \A r \in Runs : \A k \in UpdatesWith(r, "error") :
        /\ (pc[r] = "done" /\ UpdatesWith(r, "rejected") = {}) => result[r].line = 181
        /\ ReturnedAt(r, 181) =>
              \A i \in (updates[k].workout + 1)..Len(completedWorkouts[r]) :
                 LET w == completedWorkouts[r][i]
                 IN  \/ \E j \in UpdatesOf(r) : updates[j].values.peloton_workout_id = w.id
                     \/ \A row \in Bucket(r, ResolvedDate(r, w), w.ride) :
                           \E j \in UpdatesOf(r) : updates[j].id = row.id

\* an update failed and the update of a later workout succeeded
C6_Witness ==
    \E r \in Runs : \E j \in UpdatesWith(r, "error") : \E k \in UpdatesWith(r, "ok") :
        /\ j < k
        /\ updates[j].workout < updates[k].workout
        /\ ReturnedAt(r, 181)

(***************************************************************************)
(* C7: in the summary returned after the loop, success is true iff no      *)
(* update failed, and an error message is present iff at least one update  *)
(* failed; the message then states the number of failed updates.           *)
(***************************************************************************)
C7_SummaryReportsFailures ==
    \A r \in Runs :
        ReturnedAt(r, 181) =>
            LET failed == Cardinality(UpdatesWith(r, "error"))
            IN  /\ result[r].value.success <=> failed = 0
                /\ result[r].value.error # NoValue <=> failed >= 1
                /\ failed >= 1 =>
                      result[r].value.error =
                         ToString(failed) \o " workout(s) failed to update in database"

\* one update succeeded and one failed
C7_Witness ==
    \E r \in Runs :
        /\ ReturnedAt(r, 181)
        /\ Cardinality(UpdatesWith(r, "ok")) = 1
        /\ Cardinality(UpdatesWith(r, "error")) = 1
        /\ result[r].value.success = FALSE

(***************************************************************************)
(* C8 as stated: for every run, matched in the returned summary equals the *)
(* number of updates that succeeded during the run.  A run whose update    *)
(* rejects after an earlier update succeeded returns matched = 0 from the  *)
(* catch block.                                                            *)
(***************************************************************************)
C8_MatchedEqualsSuccessfulUpdates ==
    \A r \in Runs :
        pc[r] = "done" =>
            result[r].value.matched = Cardinality(UpdatesWith(r, "ok"))

(***************************************************************************)
(* C8 amended: for every run that returns the summary after the loop,      *)
(* matched equals the number of updates that succeeded during the run; a   *)
(* run that returns from any other place returns matched = 0.              *)
(***************************************************************************)
C8_MatchedAfterLoop ==
    \A r \in Runs :
        /\ ReturnedAt(r, 181) =>
              result[r].value.matched = Cardinality(UpdatesWith(r, "ok"))
        /\ (pc[r] = "done" /\ result[r].line # 181) => result[r].value.matched = 0

\* the loop ran to its end with a failed and at least one successful update
C8_Witness ==
    \E r \in Runs :
        /\ ReturnedAt(r, 181)
        /\ UpdatesWith(r, "error") # {}
        /\ UpdatesWith(r, "ok") # {}
        /\ result[r].value.matched = Cardinality(UpdatesWith(r, "ok"))

(***************************************************************************)
(* C9: when the select on planned_workouts answers with an error, the run  *)
(* returns {success: false, matched: 0, error} with the error naming the   *)
(* stage and carrying the message of the store, and issues no update.      *)
(***************************************************************************)
C9_SelectErrorAborts ==
    \A r \in Runs : \A s \in 1..Len(selects) :
        (selects[s].run = r /\ selects[s].outcome = "error") =>
            /\ pc[r] = "done"
            /\ result[r].settled = "fulfilled"
            /\ result[r].value.success = FALSE
            /\ result[r].value.matched = 0
            /\ result[r].value.error =
                  "Failed to fetch planned workouts: " \o selects[s].error.message
            /\ UpdatesOf(r) = {}

\* the select failed although a planned row of the user matched the first
\* completed workout of the feed
C9_Witness ==
    \E r \in Runs : \E s \in 1..Len(selects) : \E id \in selectable(userId[r]) :
        /\ selects[s].run = r
        /\ selects[s].outcome = "error"
        /\ planned_workouts[id].peloton_ride_id = completedWorkouts[r][1].ride
        /\ planned_workouts[id].scheduled_date = ResolvedDate(r, completedWorkouts[r][1])

(***************************************************************************)
(* C10: the promise of a run never rejects: an error thrown by the Peloton *)
(* fetch or by a store call at any point of the run ends the run with the  *)
(* summary {success: false, matched: 0, error: <message>}.                 *)
(***************************************************************************)
C10_NothingThrownToCaller ==
    \A r \in Runs :
        /\ result[r].settled # "rejected"
        /\ thrown[r] # NoThrow =>
              /\ pc[r] = "done"
              /\ result[r].settled = "fulfilled"
              /\ result[r].value.success = FALSE
              /\ result[r].value.matched = 0
              /\ result[r].value.error # NoValue
              /\ thrown[r].isError => result[r].value.error = thrown[r].message

\* an update rejected after an earlier update of the run had succeeded
C10_Witness ==
    \E r \in Runs :
        /\ thrown[r] \in StoreThrown
        /\ UpdatesWith(r, "rejected") # {}
        /\ UpdatesWith(r, "ok") # {}
        /\ pc[r] = "done"

(***************************************************************************)
(* The feed of a run, as Peloton returns it                                *)
(***************************************************************************)
Feed(r) == peloton[userId[r]]

\* positions of the feed that are not complete or have no class
Ineligible(r) ==
    {i \in 1..Len(Feed(r)) : Feed(r)[i].status # "COMPLETE" \/ Feed(r)[i].ride = NoValue}

SelectsOf(r) == {k \in 1..Len(selects) : selects[k].run = r}

(***************************************************************************)
(* C11: when no fetched workout is eligible (empty feed, or every workout  *)
(* not complete or without a class) the run returns {success: true,        *)
(* matched: 0} and issues neither the select nor an update.                *)
(***************************************************************************)
C11_NoEligibleWorkoutNoStoreCall ==
    \A r \in Runs :
        Ineligible(r) = 1..Len(Feed(r)) =>
            /\ SelectsOf(r) = {}
            /\ UpdatesOf(r) = {}
            /\ (pc[r] = "done" /\ thrown[r] = NoThrow) =>
                  /\ result[r].value.success = TRUE
                  /\ result[r].value.matched = 0
                  /\ result[r].value.error = NoValue

\* the feed held workouts, none of them eligible, while a planned row of the
\* user was waiting to be matched
C11_Witness ==
    \E r \in Runs :
        /\ Len(Feed(r)) >= 2
        /\ Ineligible(r) = 1..Len(Feed(r))
        /\ \E i, j \in Ineligible(r) :
              Feed(r)[i].status # "COMPLETE" /\ Feed(r)[j].ride = NoValue
        /\ selectable(userId[r]) # {}
        /\ pc[r] = "done"
        /\ thrown[r] = NoThrow

(***************************************************************************)
(* C12: a workout that is not complete or has no class never causes an     *)
(* update, never consumes a candidate row and never counts as a failure,   *)
(* also when a row is eligible for its date.                               *)
(***************************************************************************)
C12_IneligibleWorkoutIgnored ==
    \A r \in Runs :
        LET ignored == {Feed(r)[i].id : i \in Ineligible(r)}
        IN  /\ \A k \in UpdatesOf(r) : updates[k].values.peloton_workout_id \notin ignored
            /\ matchedPelotonWorkoutIds[r] \cap ignored = {}
            /\ Len(attemptedIds[r]) = Cardinality(UpdatesOf(r))
            /\ failedUpdates[r] = Cardinality(UpdatesWith(r, "error"))
            /\ \A i \in 1..Len(completedWorkouts[r]) : completedWorkouts[r][i].id \notin ignored

\* the loop ran to its end next to a workout in progress whose class and
\* date had an eligible row, and the row was left alone
C12_Witness ==
    \E r \in Runs : \E i \in Ineligible(r) : \E row \in Eligible(r) :
        /\ ReturnedAt(r, 181)
        /\ Feed(r)[i].status = "IN_PROGRESS"
        /\ row.peloton_ride_id = Feed(r)[i].ride
        /\ row.scheduled_date = ResolvedDate(r, Feed(r)[i])
        /\ planned_workouts[row.id].status = "planned"
        /\ UpdatesOf(r) # {}

(***************************************************************************)
(* Two calls for the same user                                             *)
(***************************************************************************)
MaxRaceFeed == 2                \* longest feed of the two-call specifications

\* the feed of completed classes of one day
RaceFeeds ==
    {[k \in 1..Len(ids) |-> PelotonWorkout(ids[k], 1705730400, "COMPLETE", "ride-123")]
     : ids \in SeqsUpTo(WorkoutIds, MaxRaceFeed) \ {<<>>}}

\* two planned rows of the user for that class on that day, and a row of
\* another user
RaceTable(o1, o2) ==
    [id \in PlannedIds |->
        CASE id = "planned-workout-1" -> PlannedRow("user-123", "ride-123", <<2024, 1, 20>>, o1)
          [] id = "planned-workout-2" -> PlannedRow("user-123", "ride-123", <<2024, 1, 20>>, o2)
          [] id = "planned-workout-3" -> PlannedRow("user-456", "ride-123", <<2024, 1, 20>>, 0)]

InitRace ==
    /\ InitRuns({1, 2})
    /\ NoCalls
    /\ NoRequest
    /\ NoEndpoint
    /\ userId = [r \in {1, 2} |-> "user-123"]
    /\ timezone = [r \in {1, 2} |-> "UTC"]
    /\ systemTimezone = "UTC"
    /\ \E feed \in RaceFeeds :
          peloton = [u \in Users |-> IF u = "user-123" THEN feed ELSE <<>>]
    /\ \E o1, o2 \in SortOrders : planned_workouts = RaceTable(o1, o2)

\* the two calls are in flight together: their awaits settle in any order
SpecRace == InitRace /\ [][Next]_vars

\* the caller awaits a call before it makes the next one
InTurn(r) == \A q \in Runs : q < r => pc[q] = "done"

NextInTurn ==
    \/ \E r \in Runs : InTurn(r) /\ GetUserWorkouts(r)
    \/ \E r \in Runs : InTurn(r) /\ SelectPlanned(r)
    \/ \E r \in Runs : InTurn(r) /\ UpdatePlanned(r)

\* the second call starts after the first has returned
SpecTwice == InitRace /\ [][NextInTurn]_vars

(***************************************************************************)
(* C13: once a write of a run has set the peloton_workout_id of a planned  *)
(* row, no later write of any run changes it to another workout id, also   *)
(* not the write of a second call for the same user that selected its rows *)
(* before the first call wrote.                                            *)
(***************************************************************************)
C13_ReferenceNeverReassigned ==
    [][\A id \in PlannedIds :
          planned_workouts[id].peloton_workout_id # NoValue =>
              planned_workouts'[id].peloton_workout_id =
                  planned_workouts[id].peloton_workout_id]_vars

(***************************************************************************)
(* C14: while two calls for the same user are in flight together, in every *)
(* reachable state no workout id is the peloton_workout_id of two planned  *)
(* rows: the write that would give a second row the id is rejected.        *)
(***************************************************************************)
C14_NoDoubleMatch ==
    \A a, b \in PlannedIds :
        (a # b /\ planned_workouts[a].peloton_workout_id # NoValue) =>
            planned_workouts[a].peloton_workout_id #
                planned_workouts[b].peloton_workout_id

\* call 2 tried to give a second row the workout id call 1 had written, and
\* the store rejected the write
C14_Witness ==
    \E j \in UpdatesWith(1, "ok"), k \in UpdatesWith(2, "error") :
        /\ j < k
        /\ updates[j].id # updates[k].id
        /\ updates[j].values.peloton_workout_id = updates[k].values.peloton_workout_id
        /\ planned_workouts[updates[j].id].peloton_workout_id =
               updates[j].values.peloton_workout_id
        /\ planned_workouts[updates[k].id].peloton_workout_id = NoValue

(***************************************************************************)
(* C15 as stated: of two calls in a row for the same user over the same    *)
(* feed, the second returns matched = 0.  After a first call in which an   *)
(* update failed or an awaited call rejected, the second call matches the  *)
(* rows the first one left unmatched.                                      *)
(***************************************************************************)
C15_SecondRunMatchesNothing ==
    pc[2] = "done" => result[2].value.matched = 0

(***************************************************************************)
(* C15 amended: of two calls in a row for the same user over the same      *)
(* feed, the second returns matched = 0 and changes no row when the first  *)
(* returned success = true.                                                *)
(***************************************************************************)
C15_SecondRunAfterSuccessMatchesNothing ==
    (pc[2] = "done" /\ result[1].value.success) =>
        /\ result[2].value.matched = 0
        /\ UpdatesWith(2, "ok") = {}

\* the first call matched a row, and the second went through its loop
C15_Witness ==
    /\ ReturnedAt(1, 181)
    /\ result[1].value.success
    /\ result[1].value.matched >= 1
    /\ ReturnedAt(2, 181)
    /\ UpdatesOf(2) # {}

\* the workouts of the feed that are complete and have a class
EligibleActivities(r) ==
    {Feed(r)[i].id : i \in (1..Len(Feed(r))) \ Ineligible(r)}

(***************************************************************************)
(* C16: the matched count a call returns is at most the number of          *)
(* completed workouts with a class in its feed, and at most the number of  *)
(* planned rows its select returned.                                       *)
(***************************************************************************)
C16_MatchedAtMostMin ==
    \A r \in Runs :
        pc[r] = "done" =>
            /\ result[r].value.matched <= Cardinality(EligibleActivities(r))
            /\ result[r].value.matched <= Cardinality(Eligible(r))

\* every eligible workout was matched, fewer than the feed lists and fewer
\* than the rows returned
C16_Witness ==
    /\ ReturnedAt(1, 181)
    /\ result[1].value.matched = Cardinality(EligibleActivities(1))
    /\ result[1].value.matched >= 1
    /\ result[1].value.matched < Cardinality(Eligible(1))
    /\ Ineligible(1) # {}

(***************************************************************************)
(* One call under every value of options.timezone                          *)
(***************************************************************************)
\* planned rows of the class on the two days the completion instant falls on
TzTable(d1, d2) ==
    [id \in PlannedIds |->
        CASE id = "planned-workout-1" -> PlannedRow("user-123", "ride-123", d1, 0)
          [] id = "planned-workout-2" -> PlannedRow("user-123", "ride-123", d2, 0)
          [] id = "planned-workout-3" -> PlannedRow("user-456", "ride-123", <<2024, 1, 20>>, 0)]

\* the option is absent, empty, not a zone, or a zone; the process runs in
\* either zone
InitTz ==
    /\ InitRuns({1})
    /\ NoCalls
    /\ NoRequest
    /\ NoEndpoint
    /\ userId = [r \in {1} |-> "user-123"]
    /\ timezone \in [{1} -> Timezones]
    /\ systemTimezone \in ValidTimezones
    /\ \E feed \in RaceFeeds :
          peloton = [u \in Users |-> IF u = "user-123" THEN feed ELSE <<>>]
    /\ \E d1, d2 \in Dates : planned_workouts = TzTable(d1, d2)

SpecTz == InitTz /\ [][Next]_vars

\* the calendar date of 2024-01-20T06:00:00Z (1705730400) in a zone
DateOfInstantIn(zone) ==
    IF zone = "America/Los_Angeles" THEN <<2024, 1, 19>> ELSE <<2024, 1, 20>>

\* no awaited call of run r rejected or answered with an error
StoreAnswered(r) ==
    /\ thrown[r] = NoThrow
    /\ \A k \in SelectsOf(r) : selects[k].outcome \in {"pending", "data"}
    /\ \A k \in UpdatesOf(r) : updates[k].outcome \in {"pending", "ok"}

\* everything a call reports when the store answered every call
ReportsSuccess(r) ==
    /\ result[r].settled = "fulfilled"
    /\ result[r].value.success
    /\ result[r].value.error = NoValue

(***************************************************************************)
(* C17: whatever options.timezone is (absent, empty, not a zone, a zone),  *)
(* the call is not ended and not reported as failed because of it: when    *)
(* the store answered every call, the call returns success.  With an       *)
(* absent, empty or invalid zone the workout is matched on its date in the *)
(* zone of the process: every update goes to a row scheduled on that date, *)
(* and a row scheduled on that date is matched.                            *)
(***************************************************************************)
C17_TimezoneNeverFails ==
    \A r \in Runs :
        /\ (pc[r] = "done" /\ StoreAnswered(r)) => ReportsSuccess(r)
        /\ timezone[r] \notin ValidTimezones =>
              /\ \A k \in UpdatesOf(r) :
                    EligibleRow(r, updates[k].id).scheduled_date =
                        DateOfInstantIn(systemTimezone)
              /\ (ReturnedAt(r, 181)
                    /\ Bucket(r, DateOfInstantIn(systemTimezone), "ride-123") # {}) =>
                       UpdatesOf(r) # {}

\* an invalid zone in a process running in Los Angeles: the workout went to
\* the row of 2024-01-19 and the call returned success
C17_Witness ==
    /\ timezone[1] = "Invalid/Timezone"
    /\ systemTimezone = "America/Los_Angeles"
    /\ ReturnedAt(1, 181)
    /\ ReportsSuccess(1)
    /\ result[1].value.matched = 1
    /\ \E k \in UpdatesWith(1, "ok") :
          EligibleRow(1, updates[k].id).scheduled_date = <<2024, 1, 19>>
    /\ \E row \in Eligible(1) : row.scheduled_date = <<2024, 1, 20>>

(***************************************************************************)
(* C18: with a valid zone a workout is matched on the calendar date of its *)
(* completion instant in that zone, not on its UTC date: a workout         *)
(* completed at 2024-01-20T06:00:00Z with zone America/Los_Angeles goes to *)
(* a row scheduled on 2024-01-19 and never to a row scheduled on           *)
(* 2024-01-20, whatever the zone of the process.                           *)
(***************************************************************************)
C18_MatchedOnDateInZone ==
    \A r \in Runs :
        timezone[r] \in ValidTimezones =>
            /\ \A k \in UpdatesOf(r) :
                  EligibleRow(r, updates[k].id).scheduled_date =
                      DateOfInstantIn(timezone[r])
            /\ (ReturnedAt(r, 181)
                  /\ Bucket(r, DateOfInstantIn(timezone[r]), "ride-123") # {}) =>
                     UpdatesOf(r) # {}

\* zone Los Angeles in a process running in UTC: the row of 2024-01-19 was
\* matched and the row of 2024-01-20 received no update
C18_Witness ==
    /\ timezone[1] = "America/Los_Angeles"
    /\ systemTimezone = "UTC"
    /\ ReturnedAt(1, 181)
    /\ \E k \in UpdatesWith(1, "ok") :
          /\ EligibleRow(1, updates[k].id).scheduled_date = <<2024, 1, 19>>
          /\ planned_workouts[updates[k].id].status = "completed"
    /\ \E row \in Eligible(1) :
          /\ row.scheduled_date = <<2024, 1, 20>>
          /\ planned_workouts[row.id].status = "planned"
          /\ \A k \in UpdatesOf(1) : updates[k].id # row.id

(***************************************************************************)
(* Two calls for different users                                           *)
(***************************************************************************)
\* planned rows of two users for one class on one day
UsersTable(u3) ==
    [id \in PlannedIds |->
        CASE id = "planned-workout-1" -> PlannedRow("user-123", "ride-123", <<2024, 1, 20>>, 0)
          [] id = "planned-workout-2" -> PlannedRow("user-456", "ride-123", <<2024, 1, 20>>, 0)
          [] id = "planned-workout-3" -> PlannedRow(u3, "ride-123", <<2024, 1, 20>>, 0)]

\* call 1 is for user-123 and call 2 for user-456; the Peloton accounts of
\* the two users may be one account, the feeds then list the same workouts
InitUsers ==
    /\ InitRuns({1, 2})
    /\ NoCalls
    /\ NoRequest
    /\ NoEndpoint
    /\ userId = [r \in {1, 2} |-> IF r = 1 THEN "user-123" ELSE "user-456"]
    /\ timezone = [r \in {1, 2} |-> "UTC"]
    /\ systemTimezone = "UTC"
    /\ \E feedA \in RaceFeeds, w \in WorkoutIds :
          peloton = [u \in Users |->
                        IF u = "user-123" THEN feedA
                        ELSE <<PelotonWorkout(w, 1705730400, "COMPLETE", "ride-123")>>]
    /\ \E u3 \in Users : planned_workouts = UsersTable(u3)

SpecUsers == InitUsers /\ [][Next]_vars

\* what call r holds
View(r) ==
    <<pc[r], completedWorkouts[r], plannedByDateAndRide[r], idx[r], match[r],
      attemptedIds[r], matchedPelotonWorkoutIds[r], successfulUpdates[r],
      failedUpdates[r], result[r], thrown[r]>>

\* what the store and Peloton hold for call r: the feed and the rows of its
\* user, and whether the unique index rejects the update it is awaiting
StoreView(r) ==
    <<peloton[userId[r]],
      [id \in ofUser(userId[r]) |-> planned_workouts[id]],
      IF pc[r] = "update"
      THEN \E other \in PlannedIds :
              /\ other # match[r].id
              /\ planned_workouts[other].peloton_workout_id =
                     completedWorkouts[r][idx[r]].id
      ELSE FALSE>>

\* a call writes to rows its own select returned, rows of its user
WritesOwnRows ==
    \A k \in 1..Len(updates) :
        /\ updates[k].id \in {row.id : row \in Eligible(updates[k].run)}
        /\ planned_workouts[updates[k].id].user_id = userId[updates[k].run]

\* the two users have no workout in common
DisjointFeeds ==
    \A u, v \in Users :
        u # v => {w.id : w \in Range(peloton[u])} \cap {w.id : w \in Range(peloton[v])} = {}

(***************************************************************************)
(* C19 as stated: a call writes only to rows its own select returned, and  *)
(* a step of the call of another user changes nothing the call reads or is *)
(* answered: not its locals, not the feed and rows of its user, not the    *)
(* answer of the store to the update it awaits.  When the Peloton accounts *)
(* of the two users list the same workout, the write of one call makes the *)
(* unique index reject the write of the other.                             *)
(***************************************************************************)
C19_UsersIndependent ==
    [][/\ WritesOwnRows'
       /\ \A r \in Runs : View(r)' = View(r) => StoreView(r)' = StoreView(r)]_vars

(***************************************************************************)
(* C19 amended: when the two users have no Peloton workout in common, a    *)
(* call writes only to rows its own select returned, and a step of the     *)
(* call of the other user changes nothing the call reads or is answered.   *)
(***************************************************************************)
C19_UsersIndependentOnDisjointFeeds ==
    [][DisjointFeeds =>
          /\ WritesOwnRows'
          /\ \A r \in Runs : View(r)' = View(r) => StoreView(r)' = StoreView(r)]_vars

\* call 2 selected first and call 1 wrote first: each call wrote a row of
\* its user while the other was in flight, and each matched its workout
C19_Witness ==
    /\ DisjointFeeds
    /\ Len(selects) = 2 /\ selects[1].run = 2
    /\ Len(updates) = 2 /\ updates[1].run = 1 /\ updates[2].run = 2
    /\ ReturnedAt(1, 181) /\ result[1].value.matched = 1
    /\ ReturnedAt(2, 181) /\ result[2].value.matched = 1

(***************************************************************************)
(* C20: when execute() throws or rejects, executeWithUndo returns null,    *)
(* shows no toast and registers no action (isUndoActive is false for the   *)
(* id of the call), and the undo callback of the call is never invoked.    *)
(***************************************************************************)
C20_FailedExecuteRegistersNothing ==
    \A c \in Calls :
        executed[c] = "rejected" =>
            /\ returned[c] = NoValue
            /\ toasts[c] = "none"
            /\ ~isUndoActive(randomUUID(c))
            /\ clicks[c] = 0
            /\ undoCalls[c] = 0

\* the execute of call 1 rejected and call 1 returned; the action of call 2
\* was registered and its undo invoked
C20_Witness ==
    /\ executed[1] = "rejected"
    /\ undoPc[1] = "returned"
    /\ executed[2] = "fulfilled"
    /\ undoCalls[2] >= 1

\* the step is a click on the Undo button of the toast of call c
Clicked(c) == clicks'[c] = clicks[c] + 1

\* the step invokes the undo callback of call c
UndoInvoked(c) == undoCalls'[c] = undoCalls[c] + 1

(***************************************************************************)
(* C21: a click on the Undo button of a registered action invokes the undo *)
(* callback if and only if no earlier invocation of it has resolved: after *)
(* an undo that resolved further clicks do not call it, and after an undo  *)
(* that threw a later click calls it again.                                *)
(***************************************************************************)
C21_ClickInvokesUndoUnlessUndone ==
    [][\A c \in Calls :
          /\ Clicked(c) => (UndoInvoked(c) <=> undone[c] = 0)
          /\ UndoInvoked(c) => Clicked(c)]_vars

\* call 1: the undo resolved and the second click did not call it again;
\* call 2: the undo threw and the second click called it again
C21_Witness ==
    /\ clicks[1] = 2 /\ undone[1] = 1 /\ undoCalls[1] = 1 /\ pendingUndos[1] = 0
    /\ clicks[2] = 2 /\ undoCalls[2] = 2
    /\ \E k \in 1..Len(notices) : notices[k] = [call |-> 2, kind |-> "error"]
    /\ \E k \in 1..Len(notices) : notices[k] = [call |-> 2, kind |-> "success"]

\* the step registers the action of call c
Registered(c) == executed[c] = "pending" /\ executed'[c] = "fulfilled"

\* the step is the resolution of an undo() of call c
UndoResolved(c) == undone'[c] = undone[c] + 1

\* the step is the rejection of an undo() of call c
UndoThrew(c) ==
    /\ Len(notices') = Len(notices) + 1
    /\ notices'[Len(notices')] = [call |-> c, kind |-> "error"]

\* the step is the onDismiss or the onAutoClose of the toast of call c
ToastGone(c) == toasts'[c] # toasts[c] /\ toasts'[c] \in {"dismissed", "closed"}

\* the step is the first cancelUndo with the id of call c
Cancelled(c) == cancelled[c] = <<>> /\ cancelled'[c] # <<>>

(***************************************************************************)
(* C22: isUndoActive(id) becomes true when execute() succeeded and the     *)
(* action is registered, and stays true until the first successful undo,   *)
(* toast dismiss, toast auto-close or cancelUndo(id); each of these makes  *)
(* it false, it never becomes true again, and an undo that threw leaves it *)
(* as it was.                                                              *)
(***************************************************************************)
C22_ActiveUntilFirstEvent ==
    [][\A c \in Calls :
          LET id == randomUUID(c)
              Event == UndoResolved(c) \/ ToastGone(c) \/ Cancelled(c)
          IN  /\ Registered(c) => (~isUndoActive(id) /\ isUndoActive(id)')
              /\ (isUndoActive(id) /\ ~isUndoActive(id)') => Event
              /\ Event => ~isUndoActive(id)'
              /\ (~isUndoActive(id) /\ isUndoActive(id)') => Registered(c)
              /\ UndoThrew(c) => (isUndoActive(id)' <=> isUndoActive(id))]_vars

\* the undo of call 1 threw and its action is still active; the action of
\* call 2 is no longer active after its toast closed
C22_Witness ==
    /\ \E k \in 1..Len(notices) : notices[k] = [call |-> 1, kind |-> "error"]
    /\ pendingUndos[1] = 0
    /\ isUndoActive(randomUUID(1))
    /\ executed[2] = "fulfilled"
    /\ toasts[2] = "closed"
    /\ ~isUndoActive(randomUUID(2))

(***************************************************************************)
(* C23: cancelUndo(id) removes the action from activeUndos and does        *)
(* nothing else: isUndoActive(id) is false after it, the toast and the     *)
(* isUndone flag are as before, and a later click on the Undo button still *)
(* invokes the undo callback.                                              *)
(***************************************************************************)
C23_CancelOnlyUntracks ==
    [][\A c \in Calls :
          /\ Cancelled(c) =>
                /\ ~isUndoActive(randomUUID(c))'
                /\ UNCHANGED <<toasts, isUndone, undoCalls, pendingUndos, undone>>
          /\ (cancelled[c] # <<>>) => ~isUndoActive(randomUUID(c))
          /\ (cancelled[c] # <<>> /\ Clicked(c) /\ undone[c] = 0) => UndoInvoked(c)]_vars

\* cancelUndo came before the first click, and the click invoked undo()
C23_Witness ==
    /\ cancelled[1] = <<0>>
    /\ clicks[1] = 1
    /\ undoCalls[1] = 1
    /\ undone[1] = 1
    /\ ~isUndoActive(randomUUID(1))

\* everything of call c: its closure, its toast, its undo callback and
\* whether its action is active
OfCall(c) ==
    <<undoPc[c], executed[c], returned[c], isUndone[c], toasts[c], clicks[c],
      undoCalls[c], pendingUndos[c], undone[c], cancelled[c],
      isUndoActive(randomUUID(c))>>

(***************************************************************************)
(* C24: registered actions are independent: a step that undoes, cancels or *)
(* dismisses one action invokes the undo callback of that action only and  *)
(* changes the active status of that action only; everything of every      *)
(* other action is unchanged.                                              *)
(***************************************************************************)
C24_ActionsIndependent ==
    [][\A c, d \in Calls :
          (c # d /\ OfCall(c)' # OfCall(c)) => OfCall(d)' = OfCall(d)]_vars

\* two registered actions: the first was undone, the second is still active
\* and its undo callback was never invoked
C24_Witness ==
    /\ executed[1] = "fulfilled" /\ executed[2] = "fulfilled"
    /\ undone[1] = 1
    /\ ~isUndoActive(randomUUID(1))
    /\ isUndoActive(randomUUID(2))
    /\ undoCalls[2] = 0 /\ toasts[2] = "shown"

(***************************************************************************)
(* One request of the reorder route                                        *)
(***************************************************************************)
\* the bodies of a request: not JSON, or an object whose date is missing or
\* present and whose workoutIds is not an array or an array of row ids
Requests ==
    {[malformed |-> TRUE, date |-> NoValue, workoutIds |-> [isArray |-> FALSE, items |-> <<>>]]}
    \cup [malformed : {FALSE},
          date : {NoValue, "2026-01-17"},
          workoutIds : {[isArray |-> FALSE, items |-> <<>>]}
                       \cup [isArray : {TRUE}, items : SeqsUpTo(PlannedIds, MaxReorder)]]

\* getUser resolves to user-123, to no user, to an error, or rejects
Sessions ==
    {[rejects |-> FALSE, user |-> "user-123", error |-> NoValue],
     [rejects |-> FALSE, user |-> NoValue, error |-> NoValue],
     [rejects |-> FALSE, user |-> NoValue, error |-> "Auth session missing!"],
     [rejects |-> TRUE, user |-> NoValue, error |-> NoValue]}

InitReorder ==
    /\ InitRuns({})
    /\ NoCalls
    /\ NoEndpoint
    /\ userId = <<>>
    /\ timezone = <<>>
    /\ systemTimezone = "UTC"
    /\ peloton = [u \in Users |-> <<>>]
    /\ \E o1, o2 \in SortOrders : planned_workouts = RaceTable(o1, o2)
    /\ request \in Requests
    /\ session \in Sessions
    /\ routePc = "json"
    /\ sortUpdates = <<>>
    /\ response = NoResponse
    /\ authCalls = 0

SpecReorder == InitReorder /\ [][NextReorder]_vars

\* the handler answered 200 {success: true}
AnsweredSuccess == routePc = "done" /\ response.status = 200 /\ response.success

workoutIds == request.workoutIds.items

\* the rows of other users are as the planner left them
OthersUntouched ==
    planned_workouts["planned-workout-3"] =
        PlannedRow("user-456", "ride-123", <<2024, 1, 20>>, 0)

OwnedBy(id, user) == planned_workouts[id].user_id = user

SortUpdatesWith(o) == {k \in 1..Len(sortUpdates) : sortUpdates[k].outcome = o}

\* every update of the request has settled, n of them with an error
SettledWithErrors(n) ==
    /\ routePc = "done"
    /\ SortUpdatesWith("pending") = {}
    /\ Cardinality(SortUpdatesWith("error")) = n

FailedToUpdate(n) == "Failed to update " \o ToString(n) \o " workout(s)"

BadBody ==
    /\ ~request.malformed
    /\ request.date = NoValue \/ ~request.workoutIds.isArray

GoodBody == ~request.malformed /\ ~BadBody

\* getUser answered, with no user or with an error
NotAuthenticated ==
    ~session.rejects /\ (session.user = NoValue \/ session.error # NoValue)

Authenticated == ~session.rejects /\ ~NotAuthenticated

(***************************************************************************)
(* C27: the reorder route issues no update when the body lacks date or     *)
(* workoutIds is not an array (400), when the user is not authenticated    *)
(* (401) or when workoutIds is empty (200 success); otherwise it issues    *)
(* exactly one update per element of workoutIds; and the body is checked   *)
(* before the authentication: a bad body is answered 400 without a call of *)
(* getUser.                                                                *)
(***************************************************************************)
C27_UpdatesOnlyForValidRequest ==
    /\ (routePc = "done" /\ BadBody) =>
          response.status = 400 /\ authCalls = 0 /\ sortUpdates = <<>>
    /\ (routePc = "done" /\ GoodBody /\ NotAuthenticated /\ authCalls = 1) =>
          response.status = 401 /\ sortUpdates = <<>>
    /\ (routePc = "done" /\ GoodBody /\ Authenticated /\ authCalls = 1
          /\ workoutIds = <<>>) =>
          response = NextResponseJson(200, TRUE, NoValue) /\ sortUpdates = <<>>
    /\ (routePc \in {"Promise.all", "done"} /\ GoodBody /\ Authenticated
          /\ authCalls = 1) =>
          /\ Len(sortUpdates) = Len(workoutIds)
          /\ \A k \in 1..Len(workoutIds) :
                sortUpdates[k].id = workoutIds[k] /\ sortUpdates[k].index = k - 1
    /\ sortUpdates # <<>> => (GoodBody /\ Authenticated)
    /\ authCalls <= 1

\* a body without date from a user who is not authenticated: 400, and
\* getUser was not called
C27_Witness ==
    /\ routePc = "done"
    /\ request.date = NoValue
    /\ request.workoutIds.isArray
    /\ Len(workoutIds) = 2
    /\ NotAuthenticated
    /\ response.status = 400
    /\ authCalls = 0

(***************************************************************************)
(* C28: the row is in attemptedIds and the workout id in                   *)
(* matchedPelotonWorkoutIds while the update is awaited, so after the      *)
(* update of row e with workout w has failed, the run issues no other      *)
(* update for e and no update with w for another row.                      *)
(***************************************************************************)
C28_NoRetryInsideRun ==
    \A r \in Runs :
        /\ \A k \in UpdatesOf(r) :
              /\ updates[k].id \in Range(attemptedIds[r])
              /\ updates[k].values.peloton_workout_id \in matchedPelotonWorkoutIds[r]
        /\ \A k \in UpdatesWith(r, "error") : \A j \in UpdatesOf(r) \ {k} :
              /\ updates[j].id # updates[k].id
              /\ updates[j].values.peloton_workout_id #
                     updates[k].values.peloton_workout_id

\* the update of a row failed, the feed lists the workout again and a later
\* workout of the same date and class was written to another row; the row
\* of the failed update is still planned when the run returns
C28_Witness ==
    /\ ReturnedAt(1, 181)
    /\ \E k \in UpdatesWith(1, "error") : \E j \in UpdatesWith(1, "ok") :
          /\ k < j
          /\ SameBucket(EligibleRow(1, updates[k].id), EligibleRow(1, updates[j].id))
          /\ planned_workouts[updates[k].id].status = "planned"
          /\ \E a, b \in 1..Len(completedWorkouts[1]) :
                /\ a < b
                /\ completedWorkouts[1][a].id = updates[k].values.peloton_workout_id
                /\ completedWorkouts[1][b].id = updates[k].values.peloton_workout_id

\* the list of rows the select of run r returned, in the order of the store
SelectData(r) ==
    selects[CHOOSE k \in SelectsOf(r) : selects[k].outcome = "data"].data

PositionIn(data, id) == CHOOSE p \in 1..Len(data) : data[p].id = id

\* row a comes before row b in their bucket: lower sort_order, or the same
\* sort_order and listed earlier by the store
ComesBefore(r, a, b) ==
    \/ a.sort_order < b.sort_order
    \/ /\ a.sort_order = b.sort_order
       /\ PositionIn(SelectData(r), a.id) < PositionIn(SelectData(r), b.id)

(***************************************************************************)
(* C29: the rows of a (date, class) bucket are taken by ascending          *)
(* sort_order, and rows of equal sort_order in the order in which the      *)
(* store returned them: when a row is written, every row of its bucket     *)
(* that comes before it was written earlier in the run.                    *)
(***************************************************************************)
C29_StableCandidateOrder ==
    \A r \in Runs : \A k \in UpdatesOf(r) :
        LET row == EligibleRow(r, updates[k].id)
        IN  \A other \in Bucket(r, row.scheduled_date, row.peloton_ride_id) :
                ComesBefore(r, other, row) =>
                    \E j \in UpdatesOf(r) : j < k /\ updates[j].id = other.id

\* two rows of one bucket with the same sort_order, listed by the store with
\* planned-workout-2 first: planned-workout-2 was written and
\* planned-workout-1 was not
C29_Witness ==
    /\ ReturnedAt(1, 181)
    /\ \E k \in UpdatesOf(1) :
          /\ updates[k].id = "planned-workout-2"
          /\ \E other \in Eligible(1) :
                /\ other.id = "planned-workout-1"
                /\ SameBucket(other, EligibleRow(1, "planned-workout-2"))
                /\ other.sort_order = EligibleRow(1, "planned-workout-2").sort_order
                /\ PositionIn(SelectData(1), "planned-workout-2") <
                       PositionIn(SelectData(1), "planned-workout-1")
                /\ \A j \in UpdatesOf(1) : updates[j].id # "planned-workout-1"

\* the workouts that resolve to the bucket of `row` before position i of
\* the filtered feed, without the workout of position i itself
EarlierInBucket(r, row, i) ==
    {completedWorkouts[r][j].id :
        j \in {p \in Resolving(r, row.scheduled_date, row.peloton_ride_id) :
                  p < i /\ completedWorkouts[r][p].id # completedWorkouts[r][i].id}}

\* the rows of the bucket of `row` that come before it
EarlierRows(r, row) ==
    {other \in Bucket(r, row.scheduled_date, row.peloton_ride_id) :
        ComesBefore(r, other, row)}

(***************************************************************************)
(* C30: in a (date, class) bucket the workouts take the rows in order, the *)
(* n-th workout of the feed that resolves to the bucket the n-th row; a    *)
(* workout that comes after as many workouts as the bucket has rows is     *)
(* skipped: it causes no update, is not counted as a failure and leaves    *)
(* success as it is.                                                       *)
(***************************************************************************)
C30_SurplusWorkoutsSkipped ==
    \A r \in Runs :
        /\ \A k \in UpdatesOf(r) :
              LET row == EligibleRow(r, updates[k].id)
              IN  /\ Cardinality(EarlierInBucket(r, row, updates[k].workout)) =
                         Cardinality(EarlierRows(r, row))
                  /\ Cardinality(EarlierInBucket(r, row, updates[k].workout)) <
                         Cardinality(Bucket(r, row.scheduled_date, row.peloton_ride_id))
        /\ ReturnedAt(r, 181) =>
              /\ result[r].value.success <=> UpdatesWith(r, "error") = {}
              /\ result[r].value.matched = Cardinality(UpdatesWith(r, "ok"))
              /\ Cardinality(UpdatesOf(r)) =
                     Cardinality(UpdatesWith(r, "ok")) + Cardinality(UpdatesWith(r, "error"))

\* two workouts resolve to a bucket of one row: the first of the feed was
\* written to it, the second caused no update, and the run reports success
C30_Witness ==
    /\ ReturnedAt(1, 181)
    /\ result[1].value.success
    /\ result[1].value.matched = 1
    /\ Cardinality(UpdatesOf(1)) = 1
    /\ \E k \in UpdatesOf(1) :
          LET row == EligibleRow(1, updates[k].id)
          IN  /\ updates[k].workout = 1
              /\ Cardinality(Bucket(1, row.scheduled_date, row.peloton_ride_id)) = 1
              /\ \E i \in Resolving(1, row.scheduled_date, row.peloton_ride_id) :
                    i > 1 /\ completedWorkouts[1][i].id # completedWorkouts[1][1].id

\* the (row, workout) pairs run r issued an update for
WritesOf(r) ==
    {[id |-> updates[k].id, workout |-> updates[k].values.peloton_workout_id] :
        k \in UpdatesOf(r)}

\* the writes of run r had its select returned the eligible rows as `order`
WritesGiven(r, order) ==
    loopWrites(1, completedWorkouts[r], BuildIndex(order), timezone[r], <<>>, {})

\* no two eligible rows of one (date, class) bucket have the same sort_order
DistinctOrderInBuckets(r) ==
    \A a, b \in Eligible(r) :
        (a # b /\ SameBucket(a, b)) => a.sort_order # b.sort_order

(***************************************************************************)
(* C31 as stated: the (row, workout) writes of a run are the same for      *)
(* every order in which the select could have returned the eligible rows.  *)
(* Two rows of one bucket with the same sort_order are taken in the order  *)
(* of the select, so the order decides which of them is written.           *)
(***************************************************************************)
C31_WritesIndependentOfOrder ==
    \A r \in Runs : \A order \in Orderings(Eligible(r)) :
        /\ WritesOf(r) \subseteq WritesGiven(r, order)
        /\ ReturnedAt(r, 181) => WritesOf(r) = WritesGiven(r, order)

(***************************************************************************)
(* C31 amended: when no two eligible rows of one (date, class) bucket have *)
(* the same sort_order, the (row, workout) writes of a run are the same    *)
(* for every order in which the select could have returned the rows: what  *)
(* the run has written is written under every order, and a run that        *)
(* returns after its loop has issued the writes of every order.            *)
(***************************************************************************)
C31_WritesIndependentOfOrderOfDistinctSortOrders ==
    \A r \in Runs : DistinctOrderInBuckets(r) =>
        \A order \in Orderings(Eligible(r)) :
            /\ WritesOf(r) \subseteq WritesGiven(r, order)
            /\ ReturnedAt(r, 181) => WritesOf(r) = WritesGiven(r, order)

\* the select returned two rows of one bucket, the higher sort_order first,
\* and the run wrote a row of the bucket
C31_Witness ==
    /\ ReturnedAt(1, 181)
    /\ Len(SelectData(1)) = 2
    /\ SameBucket(SelectData(1)[1], SelectData(1)[2])
    /\ SelectData(1)[1].sort_order > SelectData(1)[2].sort_order
    /\ \E w \in WritesOf(1) : w.id = SelectData(1)[2].id

\* the ids of the rows the select of run r returned
EligibleIds(r) == {row.id : row \in Eligible(r)}

(***************************************************************************)
(* C33: a step of a run changes nothing in the store except status,        *)
(* peloton_workout_id and completed_at of a row its select returned: no    *)
(* row is created or deleted, no row outside the rows selected changes,    *)
(* sort_order, scheduled_date, peloton_ride_id and user_id of every row    *)
(* stay as they are, and the workouts Peloton holds are not written.       *)
(***************************************************************************)
C33_WritesOnlyMatchFieldsOfEligibleRows ==
    [][/\ DOMAIN planned_workouts' = DOMAIN planned_workouts
       /\ peloton' = peloton
       /\ \A id \in DOMAIN planned_workouts :
             /\ planned_workouts'[id].sort_order = planned_workouts[id].sort_order
             /\ planned_workouts'[id].scheduled_date = planned_workouts[id].scheduled_date
             /\ planned_workouts'[id].peloton_ride_id = planned_workouts[id].peloton_ride_id
             /\ planned_workouts'[id].user_id = planned_workouts[id].user_id
             /\ planned_workouts'[id] # planned_workouts[id] =>
                   \E r \in Runs : id \in EligibleIds(r)]_vars

\* the run wrote a row it had selected; a row of the same class and day
\* that it had not selected is as it was
C33_Witness ==
    /\ ReturnedAt(1, 181)
    /\ \E k \in UpdatesWith(1, "ok") :
          /\ planned_workouts[updates[k].id].status = "completed"
          /\ planned_workouts[updates[k].id].peloton_workout_id =
                 updates[k].values.peloton_workout_id
          /\ \E other \in DOMAIN planned_workouts \ EligibleIds(1) :
                /\ planned_workouts[other].peloton_ride_id =
                       planned_workouts[updates[k].id].peloton_ride_id
                /\ planned_workouts[other].scheduled_date =
                       planned_workouts[updates[k].id].scheduled_date
                /\ planned_workouts[other].user_id = "user-456"
                /\ planned_workouts[other].status = "planned"

\* no update of run r has failed or was rejected so far
NoWriteFailure(r) == UpdatesWith(r, "error") = {} /\ UpdatesWith(r, "rejected") = {}

Attempted(r) == Range(attemptedIds[r])

(***************************************************************************)
(* C35: in a run without write failures, at every point of the run the     *)
(* attempted rows of each (date, class) bucket are the first rows of the   *)
(* bucket in its order (by sort_order, then the order of the select): a    *)
(* row is attempted, and written, only when every row of its bucket that   *)
(* comes before it is attempted.                                           *)
(***************************************************************************)
C35_AttemptedIsPrefixOfBucket ==
    \A r \in Runs : NoWriteFailure(r) =>
        /\ \A k \in UpdatesOf(r) : updates[k].id \in Attempted(r)
        /\ \A a, b \in Eligible(r) :
              (SameBucket(a, b) /\ ComesBefore(r, a, b) /\ b.id \in Attempted(r)) =>
                  a.id \in Attempted(r)

\* the run is suspended at the update of the first row of a bucket of two
\* rows; the second row is not attempted
C35_Witness ==
    /\ pc[1] = "update"
    /\ NoWriteFailure(1)
    /\ \E a, b \in Eligible(1) :
          /\ a # b
          /\ SameBucket(a, b)
          /\ ComesBefore(1, a, b)
          /\ Attempted(1) = {a.id}
          /\ match[1].id = a.id

\* run r went through without a rejected call and without a select error
Undisturbed(r) ==
    /\ pc[r] = "done"
    /\ result[r].line \in {79, 100, 181}

(***************************************************************************)
(* C34: after a call in which every update succeeded, the next call for    *)
(* the same user over the same feed and the same rows issues no update and *)
(* returns success = true, also when a planned row is left in a bucket     *)
(* whose only completed workout the first call matched to another row.     *)
(***************************************************************************)
C34_SecondRunIssuesNoWrite ==
    (/\ ReturnedAt(1, 181)
     /\ result[1].value.success
     /\ Undisturbed(2)) =>
        /\ UpdatesOf(2) = {}
        /\ result[2].value.success

(***************************************************************************)
(* C36: for one action the undo callback of the caller resolves at most    *)
(* once, however the clicks on the Undo button interleave, also when a     *)
(* click arrives while the undo() of an earlier click is still awaited.    *)
(***************************************************************************)
C36_UndoCompletesAtMostOnce ==
    \A c \in Calls : undone[c] <= 1

\* run r has resolved the date of a workout, and options.timezone was
\* missing or not a zone Intl knows: the date is the one of the process zone
FallbackTaken(r) ==
    /\ idx[r] >= 1
    /\ (timezone[r] = NoValue \/ timezone[r] = "" \/ ~isValidTimezone(timezone[r]))

(***************************************************************************)
(* C32: whenever a run resolves a date by the fallback to the zone of the  *)
(* process, because no time zone was supplied or the one supplied is not a *)
(* recognized zone, the run has written an entry for it to the console.    *)
(***************************************************************************)
C32_FallbackIsLogged ==
    \A r \in Runs :
        FallbackTaken(r) =>
            \E k \in 1..Len(console) : console[k] = consoleError(r, 42)

\* a request to the sync-completions route of a user with two planned rows
\* of one class and day, and the workouts Peloton holds for the user
InitEndpoint ==
    /\ InitRuns({})
    /\ NoCalls
    /\ NoRequest
    /\ userId = <<>>
    /\ timezone = <<>>
    /\ systemTimezone = "UTC"
    /\ \E feed \in RaceFeeds :
          peloton = [u \in Users |-> IF u = "user-123" THEN feed ELSE <<>>]
    /\ \E o1, o2 \in SortOrders : planned_workouts = RaceTable(o1, o2)
    /\ syncBody = [json |-> "malformed", timezone |-> NoValue]
    /\ endpointPc = "json"
    /\ authResult = NotAsked
    /\ profile = NotAsked
    /\ tokens = NotAsked
    /\ refreshResult = NotAsked
    /\ accessToken = "none"
    /\ syncResponse = NoSyncResponse
    /\ syncCalls = <<>>

SpecEndpoint == InitEndpoint /\ [][NextEndpoint]_vars

\* the handler has called syncCompletedWorkouts
CoreInvoked == syncCalls # <<>>

\* getUser answered a user and no error
UserOk ==
    /\ authResult.asked
    /\ ~authResult.rejects
    /\ authResult.user # NoValue
    /\ authResult.error = NoValue

\* the profile was read and has a Peloton user id
ProfileOk ==
    /\ profile.asked
    /\ ~profile.rejects
    /\ profile.error = NoValue
    /\ profile.data
    /\ profile.peloton_user_id \notin {NoValue, ""}

\* the stored tokens were read
TokensOk ==
    /\ tokens.asked
    /\ ~tokens.rejects
    /\ tokens.error = NoValue
    /\ tokens.data

Refreshed ==
    /\ refreshResult.asked
    /\ refreshResult.thrown = NoValue
    /\ ~refreshResult.isNull
    /\ refreshResult.success

\* the access token is not expired, or it was refreshed
TokenUsable == tokens.expires_at >= Now \/ Refreshed

\* each check is made only after the checks before it passed
ChecksInOrder ==
    /\ profile.asked => UserOk
    /\ tokens.asked => ProfileOk
    /\ refreshResult.asked => (TokensOk /\ tokens.expires_at < Now)

\* no run exists and nothing was asked of planned_workouts
CoreNeverRan ==
    /\ Runs = {}
    /\ updates = <<>>
    /\ selects = <<>>
    /\ \A id \in DOMAIN planned_workouts : planned_workouts[id].status = "planned"

(***************************************************************************)
(* C37 as stated: the route calls syncCompletedWorkouts only after the     *)
(* user is authenticated, the profile has a Peloton user id, the stored    *)
(* tokens exist and the access token is unexpired or was refreshed, checked *)
(* in this order; in every other case it answers 401 or 400 and no run     *)
(* exists.  A request whose body is null, or during which an awaited call  *)
(* rejects, is answered 500.                                               *)
(***************************************************************************)
C37_CoreOnlyAfterChecks ==
    /\ ChecksInOrder
    /\ CoreInvoked => (UserOk /\ ProfileOk /\ TokensOk /\ TokenUsable)
    /\ ~CoreInvoked => CoreNeverRan
    /\ (endpointPc = "done" /\ ~CoreInvoked) => syncResponse.status \in {400, 401}

(***************************************************************************)
(* C37 amended: the route calls syncCompletedWorkouts only after the user  *)
(* is authenticated, the profile has a Peloton user id, the stored tokens  *)
(* exist and the access token is unexpired or was refreshed, checked in    *)
(* this order; in every other case no run exists, and the answer is 401 or *)
(* 400, or 500 when an error other than a DecryptionError or a             *)
(* PelotonAuthError reached the catch block of the handler.                *)
(***************************************************************************)
C37_CoreOnlyAfterChecksOr500 ==
    /\ ChecksInOrder
    /\ CoreInvoked => (UserOk /\ ProfileOk /\ TokensOk /\ TokenUsable)
    /\ ~CoreInvoked => CoreNeverRan
    /\ (endpointPc = "done" /\ ~CoreInvoked) =>
          /\ syncResponse.status \in {400, 401, 500}
          /\ syncResponse.status = 500 =>
                (/\ syncResponse.error = "Internal server error"
                 /\ consoleError(0, 122) \in Range(console))

\* the stored token had expired and was refreshed, the core ran and matched
\* a row, and the route answered 200
C37_Witness ==
    /\ endpointPc = "done"
    /\ CoreInvoked
    /\ tokens.expires_at < Now
    /\ Refreshed
    /\ syncResponse.status = 200
    /\ syncResponse.matched = <<1>>
    /\ UpdatesWith(1, "ok") # {}

\* a value of the profile or of the body that is there: not undefined, not
\* null, not the empty string
Present(v) == v \notin {NoValue, ""}

(***************************************************************************)
(* C38: the time zone of every call of syncCompletedWorkouts by the route  *)
(* is the time zone of the profile when the profile has one, otherwise the *)
(* time zone of the request body when the body has one, otherwise "UTC";   *)
(* it is never missing, and it is the time zone the run works with.        *)
(***************************************************************************)
C38_TimezonePriority ==
    \A k \in 1..Len(syncCalls) :
        /\ syncCalls[k].timezone =
              IF Present(profile.timezone) THEN profile.timezone
              ELSE IF Present(syncBody.timezone) THEN syncBody.timezone
              ELSE "UTC"
        /\ Present(syncCalls[k].timezone)
        /\ \A r \in Runs : timezone[r] = syncCalls[k].timezone

\* profile and body name different zones, and the run worked with the zone
\* of the profile
C38_Witness ==
    /\ endpointPc = "done"
    /\ CoreInvoked
    /\ profile.timezone = "America/Los_Angeles"
    /\ syncBody.timezone = "UTC"
    /\ timezone[1] = "America/Los_Angeles"
    /\ syncResponse.status = 200

====
